---- MODULE Spec2Model ----
(***************************************************************************)
(* Viewport-driven region loading, idle eviction and the region cache of   *)
(* the map frontend (frontend/src/hooks.jsx useData, frontend/src/main.jsx *)
(* StorageManager).                                                        *)
(*                                                                         *)
(* The code runs on one event loop: a step of the model is one run of a    *)
(* handler from the point it is entered (or resumed after an await) to the *)
(* next await or its return.  React state (tetData, loadedRegionNames) is  *)
(* written with functional updaters, which apply to the latest state; the  *)
(* handlers read the state of the latest render.                           *)
(*                                                                         *)
(* User datasets (loadUserDatasetsInView and the user-dataset timers) live *)
(* in state of their own that the region code never reads; they are left   *)
(* out.                                                                    *)
(*                                                                         *)
(* Specifications:                                                         *)
(*   Spec         the hook: pointer fetch, viewport events, loads, timers  *)
(*   PayloadSpec  the hook with the text of the region files line by line  *)
(*   CacheSpec    StorageManager's region cache called directly            *)
(*   GeomSpec     the box intersection test of loadRegionsInView           *)
(*   HullSpec     the convex hulls (buildOutlinePolygon, _convexHull)      *)
(*   SectorSpec   the sector overlays: _dbscan step by step, the layers    *)
(*   SectorLiveSpec  SectorSpec with _dbscan running on to its return       *)
(*   LiveSpec     Spec with every awaited call returning in the end        *)
(*   ScraperSpec  the scraper's main pass, crash and restart                *)
(***************************************************************************)
EXTENDS Integers, Sequences, FiniteSets

VARIABLES
    regionPointers,        \* useState([]): the pointer.json entries, in file order
    pointerLoaded,         \* useRef(false): pointer.json fetch was issued
    pointerPc,             \* where loadPointer stands: "idle", "get", "save", "done"
    loading,               \* useState(true): the hook's loading flag
    error,                 \* useState(null): TRUE once setError(e) ran
    tetData,               \* useState([]): aggregated loaded region records
    loadedRegionNames,     \* useState(new Set())
    loadingRegionsRef,     \* useRef(new Set())
    regionEvictionTimersRef, \* useRef(new Map()): regionName -> timeoutId (0: no entry)
    timeouts,              \* the host's pending setTimeout callbacks: {[id, regionName]}
    invocations,           \* suspended loadRegionsInView activations, by slot
    regionStore,           \* localforage instance: region name -> cached payload or NoEntry
    boundsInfo,            \* the argument of the latest handleViewportChange call
    lastOp,                \* the handler step that ran last (history)
    call,                  \* the library call made last: function, arguments, result
    cacheLog               \* the StorageManager calls that returned, in order (history)

vars == <<regionPointers, pointerLoaded, pointerPc, loading, error, tetData,
          loadedRegionNames, loadingRegionsRef, regionEvictionTimersRef, timeouts,
          invocations, regionStore, boundsInfo, lastOp, call, cacheLog>>

\* What the hook never touches: the record of direct calls of the library.
libVars == <<call, cacheLog>>

---------------------------------------------------------------------------
(* Bounds of the model *)

RecordsPerRegion == 2
MaxInvocations == 2
MaxVersion == 2
MaxCalls == 3
GridMax == 2
MaxPoints == 4
MaxClusterPoints == 3
MaxMinPts == 3
MaxFeatures == 3
MaxBatch == 2
MaxCrashes == 1

(* Program constants *)

LOAD_THRESHOLD_ZOOM == 15

---------------------------------------------------------------------------
(* Data *)

Versions == 1..MaxVersion

NoEntry == [present |-> FALSE, updatedAt |-> "", records |-> <<>>]
Idle == [pc |-> "idle", region |-> 0, rest |-> <<>>, records |-> <<>>]
NoBounds == [west |-> 0, south |-> 0, east |-> 0, north |-> 0, zoom |-> 0]
\* History of the last step: the handler that ran and the region it was about;
\* for a viewport event, the loaded regions whose eviction was scheduled again
\* while a timer was pending, and those whose pending timer the event removed.
Op(op, region) == [op |-> op, region |-> region, again |-> {}, cancelled |-> {}]
NoOp == Op("none", 0)
\* No library call was made yet.
NoCall == [fn |-> "none", pc |-> "returned"]

\* The freshness tokens: the one the pointer carries now, and an older one
\* left in the store by an earlier publication of the region.
CurrentUpdatedAt == "2025-02-01"
OldUpdatedAt == "2025-01-01"

\* pointer.json as served: two regions side by side, each entry with its
\* bbox [minX, minY, maxX, maxY] and the freshness token of its publication.
PointerJson ==
    << [name |-> 1, bbox |-> <<10, 0, 15, 5>>, updatedAt |-> CurrentUpdatedAt],
       [name |-> 2, bbox |-> <<20, 0, 25, 5>>, updatedAt |-> CurrentUpdatedAt] >>

RegionNames == { PointerJson[i].name : i \in 1..Len(PointerJson) }

\* setTimeout handles: more than the code can have pending at a time.
TimeoutIds == 1..(2 * Len(PointerJson))

\* ids of the records of region r (ids are unique across regions).
RegionIds(r) == { (r - 1) * RecordsPerRegion + k : k \in 1..RecordsPerRegion }

\* The records a region file parses to when its content is version v.
RegionFile(r, v) ==
    [k \in 1..RecordsPerRegion |-> [id |-> (r - 1) * RecordsPerRegion + k, ver |-> v]]

\* Viewports the map reports at the threshold zoom: one that sees no region,
\* one over region 1, one over both regions, one over region 2; and one below
\* the threshold that spans the whole catalog.
HighViews ==
    { [west |-> 0, south |-> 1, east |-> 5, north |-> 4, zoom |-> LOAD_THRESHOLD_ZOOM],
      [west |-> 12, south |-> 1, east |-> 13, north |-> 4, zoom |-> LOAD_THRESHOLD_ZOOM],
      [west |-> 12, south |-> 1, east |-> 23, north |-> 4, zoom |-> LOAD_THRESHOLD_ZOOM],
      [west |-> 22, south |-> 1, east |-> 23, north |-> 4, zoom |-> LOAD_THRESHOLD_ZOOM] }
LowViews ==
    { [west |-> 0, south |-> 0, east |-> 25, north |-> 5, zoom |-> LOAD_THRESHOLD_ZOOM - 1] }
Views == HighViews \cup LowViews

---------------------------------------------------------------------------
(* Pure helpers *)

\* The test with strict comparisons turned around: boxes that only touch are
\* taken as apart.
intersectsStrict(r, b) ==
    IF Len(r.bbox) # 4 THEN FALSE
    ELSE ~(r.bbox[3] <= b.west \/ r.bbox[1] >= b.east \/ r.bbox[4] <= b.south \/ r.bbox[2] >= b.north)

\* The test with one comparison made non-strict: a box that ends where the
\* viewport begins is taken as apart, a box that begins where it ends is not.
intersectsHalfOpen(r, b) ==
    IF Len(r.bbox) # 4 THEN FALSE
    ELSE ~(r.bbox[3] <= b.west \/ r.bbox[1] > b.east \/ r.bbox[4] < b.south \/ r.bbox[2] > b.north)

\* hooks.jsx:200-205 and 347-350
intersects(r, b) ==
    IF Len(r.bbox) # 4 THEN FALSE
    ELSE ~(r.bbox[3] < b.west \/ r.bbox[1] > b.east \/ r.bbox[4] < b.south \/ r.bbox[2] > b.north)

\* hooks.jsx:290, prev.filter(r => r._regionName !== regionName)
RECURSIVE EvictRecords(_, _)
EvictRecords(prev, regionName) ==
    IF prev = <<>> THEN <<>>
    ELSE IF Head(prev).regionName # regionName
         THEN <<Head(prev)>> \o EvictRecords(Tail(prev), regionName)
         ELSE EvictRecords(Tail(prev), regionName)

\* The merge by concatenation: the record is pushed whatever its id.
MapPush(m, rec) == Append(m, rec)

\* Map.prototype.set on an insertion-ordered Map keyed by id, kept as the
\* sequence of its values: an existing key keeps its position.
MapSet(m, rec) ==
    IF \E i \in 1..Len(m) : m[i].id = rec.id
    THEN [i \in 1..Len(m) |-> IF m[i].id = rec.id THEN rec ELSE m[i]]
    ELSE Append(m, rec)

RECURSIVE MapSetAll(_, _)
MapSetAll(m, recs) ==
    IF recs = <<>> THEN m ELSE MapSetAll(MapSet(m, Head(recs)), Tail(recs))

Tagged(recs, name) ==
    [i \in 1..Len(recs) |-> [id |-> recs[i].id, ver |-> recs[i].ver, regionName |-> name]]

\* hooks.jsx:232-237, the setTetData updater
MergeRecords(prev, records, name) ==
    IF Len(records) = 0 THEN prev
    ELSE MapSetAll(MapSetAll(<<>>, prev), Tagged(records, name))

\* hooks.jsx:206, the names of toLoad in pointer order
ToLoad(pointers, loaded, bbox) ==
    LET keep == { i \in 1..Len(pointers) :
                    pointers[i].name \notin loaded /\ intersects(pointers[i], bbox) }
        RECURSIVE Names(_)
        Names(i) == IF i > Len(pointers) THEN <<>>
                    ELSE IF i \in keep THEN <<pointers[i].name>> \o Names(i + 1)
                    ELSE Names(i + 1)
    IN Names(1)

\* hooks.jsx:207-208, the head of the for loop: regions that are marked in
\* loadingRegionsRef are passed over; the result starts at the region the loop
\* stops at to load, and is empty when the loop runs out.
\* The loop without the test of loadingRegionsRef.
SkipLoadingUnguarded(queue, busy) == queue

RECURSIVE SkipLoading(_, _)
SkipLoading(queue, busy) ==
    IF queue = <<>> THEN <<>>
    ELSE IF Head(queue) \in busy THEN SkipLoading(Tail(queue), busy)
    ELSE queue

\* hooks.jsx:209-212: the activation as it waits for getOrInvalidateRegion.
Activation(queue) ==
    [pc |-> "cacheGet", region |-> Head(queue), rest |-> Tail(queue), records |-> <<>>]

Pointer(name) == CHOOSE p \in { regionPointers[i] : i \in 1..Len(regionPointers) } : p.name = name

FreeSlots == { s \in 1..MaxInvocations : invocations[s].pc = "idle" }
LowestFree == CHOOSE s \in FreeSlots : \A t \in FreeSlots : s <= t

---------------------------------------------------------------------------
(* Eviction timers: hooks.jsx:287-305 *)

FreeTimeoutIds == TimeoutIds \ { t.id : t \in timeouts }

\* The schedule without the test of the map: a second timeout is set and its
\* handle overwrites the first in the map.
scheduleWithoutHasTest(st, regionName) ==
    LET free == TimeoutIds \ { t.id : t \in st.pending }
        id == CHOOSE i \in free : \A j \in free : i <= j
    IN [timers |-> [st.timers EXCEPT ![regionName] = id],
        pending |-> st.pending \cup {[id |-> id, regionName |-> regionName]}]

\* The schedule that restarts the idle delay: a pending timeout is cleared and
\* a new one is set.
scheduleRestarting(st, regionName) ==
    LET free == TimeoutIds \ { t.id : t \in st.pending }
        id == CHOOSE i \in free : \A j \in free : i <= j
    IN [timers |-> [st.timers EXCEPT ![regionName] = id],
        pending |-> { x \in st.pending : x.id # st.timers[regionName] }
                    \cup {[id |-> id, regionName |-> regionName]}]

\* scheduleRegionEviction(regionName) on st = [timers, pending]
scheduleRegionEviction(st, regionName) ==
    IF st.timers[regionName] # 0 THEN st
    ELSE LET free == TimeoutIds \ { t.id : t \in st.pending }
             id == CHOOSE i \in free : \A j \in free : i <= j
         IN [timers |-> [st.timers EXCEPT ![regionName] = id],
             pending |-> st.pending \cup {[id |-> id, regionName |-> regionName]}]

\* The cancel that drops the map entry and leaves the timeout pending.
cancelWithoutClearTimeout(st, regionName) ==
    [timers |-> [st.timers EXCEPT ![regionName] = 0], pending |-> st.pending]

\* cancelRegionEviction(regionName) on st = [timers, pending]
cancelRegionEviction(st, regionName) ==
    LET t == st.timers[regionName]
    IN IF t # 0
       THEN [timers |-> [st.timers EXCEPT ![regionName] = 0],
             pending |-> { x \in st.pending : x.id # t }]
       ELSE st

\* hooks.jsx:351-359, the forEach over the loaded names (taken in ascending
\* order; the timeout ids are opaque handles)
RECURSIVE TrackVisibility(_, _, _)
TrackVisibility(st, names, bbox) ==
    IF names = {} THEN st
    ELSE LET name == CHOOSE n \in names : \A m \in names : n <= m
             found == \E i \in 1..Len(regionPointers) : regionPointers[i].name = name
             next == IF found /\ intersects(Pointer(name), bbox)
                     THEN cancelRegionEviction(st, name)
                     ELSE scheduleRegionEviction(st, name)
         IN TrackVisibility(next, names \ {name}, bbox)

\* hooks.jsx:387-388: clearTimeout on every handle of the map, then clear().
ClearAllTimers(st) ==
    [timers |-> [r \in RegionNames |-> 0],
     pending |-> { x \in st.pending : \A r \in RegionNames : st.timers[r] # x.id }]

---------------------------------------------------------------------------
(* Initial state: the hook as constructed; the persistent store holds what *)
(* earlier sessions left in it: nothing, an entry of the current           *)
(* publication, or an entry of an older publication.                       *)

StoredEntries(r) ==
    { NoEntry,
      [present |-> TRUE, updatedAt |-> OldUpdatedAt, records |-> RegionFile(r, 1)],
      [present |-> TRUE, updatedAt |-> CurrentUpdatedAt, records |-> RegionFile(r, 1)] }

\* useData as constructed (hooks.jsx:110-128); no library call made yet.
HookInit ==
    /\ regionPointers = <<>>
    /\ pointerLoaded = FALSE
    /\ pointerPc = "idle"
    /\ loading = TRUE
    /\ error = FALSE
    /\ tetData = <<>>
    /\ loadedRegionNames = {}
    /\ loadingRegionsRef = {}
    /\ regionEvictionTimersRef = [r \in RegionNames |-> 0]
    /\ timeouts = {}
    /\ invocations = [s \in 1..MaxInvocations |-> Idle]
    /\ boundsInfo = NoBounds
    /\ lastOp = NoOp
    /\ call = NoCall
    /\ cacheLog = <<>>

Init ==
    /\ HookInit
    /\ regionStore \in { f \in [RegionNames -> UNION { StoredEntries(r) : r \in RegionNames }] :
                           \A r \in RegionNames : f[r] \in StoredEntries(r) }

hookVars == <<tetData, loadedRegionNames, loadingRegionsRef, regionEvictionTimersRef,
              timeouts, invocations, regionStore, boundsInfo>>
pointerVars == <<regionPointers, pointerLoaded, pointerPc, loading, error>>

---------------------------------------------------------------------------
(* pointer.json: hooks.jsx:138-169 *)

\* The effect runs: the guard on pointerLoaded, the mark, axios.get issued.
LoadPointer ==
    /\ ~pointerLoaded
    /\ pointerLoaded' = TRUE
    /\ pointerPc' = "get"
    /\ lastOp' = Op("loadPointer", 0)
    /\ UNCHANGED <<regionPointers, loading, error, hookVars, libVars>>

\* axios.get resolved: setRegionPointers(arr), saveRegionPointer awaited.
PointerFetched ==
    /\ pointerPc = "get"
    /\ regionPointers' = PointerJson
    /\ pointerPc' = "save"
    /\ lastOp' = Op("pointerFetched", 0)
    /\ UNCHANGED <<pointerLoaded, loading, error, hookVars, libVars>>

\* saveRegionPointer returned (it swallows its own errors): finally.
PointerSaved ==
    /\ pointerPc = "save"
    /\ pointerPc' = "done"
    /\ loading' = FALSE
    /\ lastOp' = Op("pointerSaved", 0)
    /\ UNCHANGED <<regionPointers, pointerLoaded, error, hookVars, libVars>>

\* The failure that clears the mark, so that the effect fetches again.
PointerFetchFailedRetrying ==
    /\ pointerPc = "get"
    /\ pointerPc' = "idle"
    /\ pointerLoaded' = FALSE
    /\ error' = TRUE
    /\ loading' = FALSE
    /\ lastOp' = Op("pointerFailed", 0)
    /\ UNCHANGED <<regionPointers, hookVars, libVars>>

\* axios.get rejected: catch sets the error, finally clears the flag.
PointerFetchFailed ==
    /\ pointerPc = "get"
    /\ pointerPc' = "done"
    /\ error' = TRUE
    /\ loading' = FALSE
    /\ lastOp' = Op("pointerFailed", 0)
    /\ UNCHANGED <<regionPointers, pointerLoaded, hookVars, libVars>>

---------------------------------------------------------------------------
(* handleViewportChange: hooks.jsx:328-392 *)

\* The low-zoom branch that clears nothing.
ClearNothing(value, empty) == value

\* hooks.jsx:381, the low-zoom clear of one piece of state
ClearIfData(value, empty) ==
    IF Len(tetData) > 0 \/ Cardinality(loadedRegionNames) > 0 THEN empty ELSE value

\* zoom >= 15: loadRegionsInView runs up to its first await (hooks.jsx:196-212),
\* then the visibility pass schedules and cancels evictions (hooks.jsx:345-360).
ViewportHigh(v) ==
    LET queue == IF Len(regionPointers) = 0 THEN <<>>
                 ELSE SkipLoading(ToLoad(regionPointers, loadedRegionNames, v), loadingRegionsRef)
        st0 == [timers |-> regionEvictionTimersRef, pending |-> timeouts]
        st == IF Len(regionPointers) # 0 /\ Cardinality(loadedRegionNames) # 0
              THEN TrackVisibility(st0, loadedRegionNames, v)
              ELSE st0
    IN /\ v.zoom >= LOAD_THRESHOLD_ZOOM
       /\ queue # <<>> => FreeSlots # {}
       /\ Cardinality(loadedRegionNames) <= Cardinality(FreeTimeoutIds)
       /\ invocations' = IF queue = <<>> THEN invocations
                         ELSE [invocations EXCEPT ![LowestFree] = Activation(queue)]
       /\ loadingRegionsRef' = IF queue = <<>> THEN loadingRegionsRef
                               ELSE loadingRegionsRef \cup {Head(queue)}
       /\ regionEvictionTimersRef' = st.timers
       /\ timeouts' = st.pending
       /\ UNCHANGED <<tetData, loadedRegionNames>>

\* zoom < 15: clear the data and every pending eviction timer (hooks.jsx:378-391).
ViewportLow(v) ==
    LET st == ClearAllTimers([timers |-> regionEvictionTimersRef, pending |-> timeouts])
    IN /\ v.zoom < LOAD_THRESHOLD_ZOOM
       /\ tetData' = ClearIfData(tetData, <<>>)
       /\ loadedRegionNames' = ClearIfData(loadedRegionNames, {})
       /\ regionEvictionTimersRef' = st.timers
       /\ timeouts' = st.pending
       /\ UNCHANGED <<invocations, loadingRegionsRef>>

handleViewportChange(v) ==
    /\ \/ ViewportHigh(v)
       \/ ViewportLow(v)
    /\ boundsInfo' = v
    /\ lastOp' = [op |-> "viewport", region |-> 0,
                  again |-> { r \in loadedRegionNames :
                                /\ v.zoom >= LOAD_THRESHOLD_ZOOM
                                /\ regionEvictionTimersRef[r] # 0
                                /\ ~intersects(Pointer(r), v) },
                  cancelled |-> { r \in RegionNames :
                                    /\ regionEvictionTimersRef[r] # 0
                                    /\ regionEvictionTimersRef'[r] = 0 }]
    /\ UNCHANGED <<regionStore, pointerVars, libVars>>

---------------------------------------------------------------------------
(* The eviction timer fires: hooks.jsx:289-298 *)

EvictionTimeout(t) ==
    /\ t \in timeouts
    /\ timeouts' = timeouts \ {t}
    /\ tetData' = EvictRecords(tetData, t.regionName)
    /\ loadedRegionNames' = loadedRegionNames \ {t.regionName}
    /\ regionEvictionTimersRef' = [regionEvictionTimersRef EXCEPT ![t.regionName] = 0]
    /\ lastOp' = Op("evicted", t.regionName)
    /\ UNCHANGED <<invocations, loadingRegionsRef, regionStore, boundsInfo, pointerVars, libVars>>

---------------------------------------------------------------------------
(* StorageManager: main.jsx:198-219 *)

\* A stored value that getItem cannot read back: the read rejects.
Unreadable == [present |-> TRUE, unreadable |-> TRUE]

\* getRegionDataset on what the store holds under region_<name>: a rejected
\* getItem is caught and null (NoEntry) is returned, as for a missing key.
getRegionDataset(stored) ==
    IF stored = Unreadable THEN NoEntry ELSE stored

\* The lookup that returns null on a mismatch and leaves the stale entry.
getWithoutInvalidation(existing, expectedUpdatedAt) ==
    IF ~existing.present THEN "miss"
    ELSE IF expectedUpdatedAt = "" THEN "hit"
    ELSE IF existing.updatedAt = expectedUpdatedAt THEN "hit"
    ELSE "miss"

\* getOrInvalidateRegion after its getItem: "miss" (not cached), "hit"
\* (records returned) or "stale" (removeItem is awaited, then null).
getOrInvalidateRegion(existing, expectedUpdatedAt) ==
    IF ~existing.present THEN "miss"
    ELSE IF expectedUpdatedAt = "" THEN "hit"
    ELSE IF existing.updatedAt = expectedUpdatedAt THEN "hit"
    ELSE "stale"

\* The payload that always carries the time of the call.
saveWithCurrentTime(records, updatedAt) ==
    [present |-> TRUE, updatedAt |-> "now", records |-> records]

\* saveRegionDataset: the payload stored under region_<name>
saveRegionDataset(records, updatedAt) ==
    [present |-> TRUE,
     updatedAt |-> IF updatedAt = "" THEN "now" ELSE updatedAt,
     records |-> records]

---------------------------------------------------------------------------
(* loadRegionsInView resumed after an await: hooks.jsx:207-244 *)

\* The finally that leaves the mark in place.
ReleaseNothing(busy, name) == busy

\* hooks.jsx:242, finally
Release(busy, name) == busy \ {name}

\* The region is marked only while the latest viewport still shows it.
MarkLoadedIfInView(loaded, name) ==
    IF boundsInfo.zoom >= LOAD_THRESHOLD_ZOOM /\ intersects(Pointer(name), boundsInfo)
    THEN loaded \cup {name}
    ELSE loaded

\* hooks.jsx:238
MarkLoaded(loaded, name) == loaded \cup {name}

\* The for loop goes on after the finally of the region in slot s: it passes
\* over regions that are loading now and stops at the next one to load.
Continue(s) ==
    LET busy == Release(loadingRegionsRef, invocations[s].region)
        queue == SkipLoading(invocations[s].rest, busy)
    IN /\ invocations' = [invocations EXCEPT ![s] = IF queue = <<>> THEN Idle
                                                     ELSE Activation(queue)]
       /\ loadingRegionsRef' = IF queue = <<>> THEN busy ELSE busy \cup {Head(queue)}

\* hooks.jsx:232-238, then finally and the rest of the loop
Merged(s, records) ==
    LET name == invocations[s].region
    IN /\ tetData' = MergeRecords(tetData, records, name)
       /\ loadedRegionNames' = MarkLoaded(loadedRegionNames, name)
       /\ Continue(s)
       /\ lastOp' = Op("loaded", name)
       /\ UNCHANGED <<regionEvictionTimersRef, timeouts, boundsInfo, pointerVars, libVars>>

\* hooks.jsx:239-243: catch logs, finally, and the rest of the loop
Failed(s) ==
    /\ Continue(s)
    /\ lastOp' = Op("failed", invocations[s].region)
    /\ UNCHANGED <<tetData, loadedRegionNames, regionEvictionTimersRef, timeouts,
                   boundsInfo, pointerVars, libVars>>

Awaits(s, pc, records) ==
    /\ invocations' = [invocations EXCEPT ![s].pc = pc, ![s].records = records]
    /\ lastOp' = Op(pc, invocations[s].region)
    /\ UNCHANGED <<tetData, loadedRegionNames, loadingRegionsRef, regionEvictionTimersRef,
                   timeouts, boundsInfo, pointerVars, libVars>>

\* The lookup that passes no expected token: any cached entry is accepted.
LookupWithoutToken(s) ==
    getOrInvalidateRegion(getRegionDataset(regionStore[invocations[s].region]), "")

CacheLookup(s) ==
    getOrInvalidateRegion(getRegionDataset(regionStore[invocations[s].region]),
                          Pointer(invocations[s].region).updatedAt)

\* getOrInvalidateRegion returned the cached records: they are merged.
CacheHit(s) ==
    /\ invocations[s].pc = "cacheGet"
    /\ CacheLookup(s) = "hit"
    /\ Merged(s, regionStore[invocations[s].region].records)
    /\ UNCHANGED regionStore

\* getOrInvalidateRegion returned null for a region that is not cached:
\* axios.get is issued.
CacheMiss(s) ==
    /\ invocations[s].pc = "cacheGet"
    /\ CacheLookup(s) = "miss"
    /\ Awaits(s, "fetch", <<>>)
    /\ UNCHANGED regionStore

\* The cached entry carries another updatedAt: removeItem is awaited.
CacheStale(s) ==
    /\ invocations[s].pc = "cacheGet"
    /\ CacheLookup(s) = "stale"
    /\ Awaits(s, "cacheRemove", <<>>)
    /\ UNCHANGED regionStore

\* removeItem resolved: getOrInvalidateRegion returns null, axios.get is issued.
CacheRemoved(s) ==
    /\ invocations[s].pc = "cacheRemove"
    /\ regionStore' = [regionStore EXCEPT ![invocations[s].region] = NoEntry]
    /\ Awaits(s, "fetch", <<>>)

\* removeItem rejected: the rejection reaches the catch of loadRegionsInView.
CacheRemoveFailed(s) ==
    /\ invocations[s].pc = "cacheRemove"
    /\ Failed(s)
    /\ UNCHANGED regionStore

\* axios.get resolved and the text parsed: saveRegionDataset is awaited.
Fetched(s, v) ==
    /\ invocations[s].pc = "fetch"
    /\ Awaits(s, "save", RegionFile(invocations[s].region, v))
    /\ UNCHANGED regionStore

\* axios.get rejected, or the text did not parse.
FetchFailed(s) ==
    /\ invocations[s].pc = "fetch"
    /\ Failed(s)
    /\ UNCHANGED regionStore

\* saveRegionDataset returned (stored, or its setItem failed and was logged):
\* the fetched records are merged.
Saved(s, stored) ==
    /\ invocations[s].pc = "save"
    /\ regionStore' = IF stored
                      THEN [regionStore EXCEPT ![invocations[s].region] =
                              saveRegionDataset(invocations[s].records,
                                                Pointer(invocations[s].region).updatedAt)]
                      ELSE regionStore
    /\ Merged(s, invocations[s].records)

---------------------------------------------------------------------------

Next ==
    \/ LoadPointer
    \/ PointerFetched
    \/ PointerSaved
    \/ PointerFetchFailed
    \/ \E v \in Views : handleViewportChange(v)
    \/ \E t \in timeouts : EvictionTimeout(t)
    \/ \E s \in 1..MaxInvocations : CacheHit(s)
    \/ \E s \in 1..MaxInvocations : CacheMiss(s)
    \/ \E s \in 1..MaxInvocations : CacheStale(s)
    \/ \E s \in 1..MaxInvocations : CacheRemoved(s)
    \/ \E s \in 1..MaxInvocations : CacheRemoveFailed(s)
    \/ \E s \in 1..MaxInvocations, v \in Versions : Fetched(s, v)
    \/ \E s \in 1..MaxInvocations : FetchFailed(s)
    \/ \E s \in 1..MaxInvocations, stored \in BOOLEAN : Saved(s, stored)

Spec == Init /\ [][Next]_vars

\* The hook with every awaited call of loadRegionsInView returning in the end
\* (a promise that settles resumes the function that awaits it): for every
\* slot, weak fairness of the return of each awaited call.  The returns of
\* removeItem and of axios.get are enabled exactly while the slot awaits
\* them; so are those of getOrInvalidateRegion and saveRegionDataset, whose
\* weak fairness is written out with the slot's pc in place of ENABLED.
LiveSpec ==
    Spec /\ \A s \in 1..MaxInvocations :
        /\ WF_vars(CacheRemoved(s) \/ CacheRemoveFailed(s))
        /\ WF_vars((\E v \in Versions : Fetched(s, v)) \/ FetchFailed(s))
        /\ \/ []<>(invocations[s].pc # "cacheGet")
           \/ []<><<CacheHit(s) \/ CacheMiss(s) \/ CacheStale(s)>>_vars
        /\ \/ []<>(invocations[s].pc # "save")
           \/ []<><<\E stored \in BOOLEAN : Saved(s, stored)>>_vars

---------------------------------------------------------------------------
(* The loader with the text of the region file spelled out line by line:   *)
(* hooks.jsx:223-225, utils.js:91-110.                                      *)

\* The lines of a region file: the JSON text of a record, the JSON text of an
\* object without geometry, text that is not JSON, and a blank line.
RecordLine(id, v) ==
    [kind |-> "json", id |-> id, ver |-> v, address |-> TRUE, geometry |-> TRUE, offers |-> TRUE]
NoGeometryLine(id, v) ==
    [kind |-> "json", id |-> id, ver |-> v, address |-> TRUE, geometry |-> FALSE, offers |-> TRUE]
BrokenLine == [kind |-> "text"]
BlankLine == [kind |-> "blank"]

\* The text of the file of region r in version v, one line per record.
RegionText(r, v) ==
    [k \in 1..RecordsPerRegion |-> RecordLine((r - 1) * RecordsPerRegion + k, v)]

\* The text with its last line replaced.
WithLastLine(text, line) == [text EXCEPT ![Len(text)] = line]

\* What the transport may deliver for region r: the file in any version, the
\* file with a trailing blank line, and the first version with its last line
\* damaged: an object without geometry, or text that is not JSON.
Payloads(r) ==
    { RegionText(r, v) : v \in Versions }
        \cup { Append(RegionText(r, 1), BlankLine),
               WithLastLine(RegionText(r, 1), NoGeometryLine(r * RecordsPerRegion, 1)),
               WithLastLine(RegionText(r, 1), BrokenLine) }

NotBlank(line) == line.kind # "blank"

\* utils.js:91-96: split, drop the blank lines, JSON.parse each line; the
\* first line that is not JSON makes JSON.parse throw out of the map.
parseNDJSON(text) ==
    LET lines == SelectSeq(text, NotBlank)
    IN IF \E i \in 1..Len(lines) : lines[i].kind = "text"
       THEN [threw |-> TRUE, data |-> <<>>]
       ELSE [threw |-> FALSE, data |-> lines]

\* utils.js:101-110
isValidTETProperty(property) ==
    /\ property.id # 0
    /\ property.address
    /\ property.geometry
    /\ property.offers

\* The record the hook keeps of a parsed object.
AsRecords(data) == [i \in 1..Len(data) |-> [id |-> data[i].id, ver |-> data[i].ver]]

\* axios.get resolved with text: parseNDJSON and the filter run; a throw
\* reaches the catch of loadRegionsInView, else saveRegionDataset is awaited.
FetchedText(s, text) ==
    LET parsed == parseNDJSON(text)
    IN /\ invocations[s].pc = "fetch"
       /\ IF parsed.threw
          THEN Failed(s)
          ELSE Awaits(s, "save", AsRecords(SelectSeq(parsed.data, isValidTETProperty)))
       /\ UNCHANGED regionStore

PayloadNext ==
    \/ LoadPointer
    \/ PointerFetched
    \/ PointerSaved
    \/ PointerFetchFailed
    \/ \E v \in Views : handleViewportChange(v)
    \/ \E t \in timeouts : EvictionTimeout(t)
    \/ \E s \in 1..MaxInvocations : CacheHit(s)
    \/ \E s \in 1..MaxInvocations : CacheMiss(s)
    \/ \E s \in 1..MaxInvocations : CacheStale(s)
    \/ \E s \in 1..MaxInvocations : CacheRemoved(s)
    \/ \E s \in 1..MaxInvocations : CacheRemoveFailed(s)
    \/ \E s \in 1..MaxInvocations :
            \E text \in Payloads(invocations[s].region) : FetchedText(s, text)
    \/ \E s \in 1..MaxInvocations : FetchFailed(s)
    \/ \E s \in 1..MaxInvocations, stored \in BOOLEAN : Saved(s, stored)

PayloadSpec == Init /\ [][PayloadNext]_vars

---------------------------------------------------------------------------
(* StorageManager called directly, one call after the other: the region    *)
(* cache as a store of its own (main.jsx:198-219).  The store starts with   *)
(* no entry under a name, or with a value that cannot be read back.         *)

\* The updatedAt arguments of the calls: none given (""), or a token.
Tokens == {"", OldUpdatedAt, CurrentUpdatedAt}

Null == [null |-> TRUE, records |-> <<>>]
Value(records) == [null |-> FALSE, records |-> records]

Returned(fn, name, updatedAt, result) ==
    [fn |-> fn, name |-> name, updatedAt |-> updatedAt, pc |-> "returned", result |-> result]

Logged(fn, name, updatedAt, result) ==
    [fn |-> fn, name |-> name, updatedAt |-> updatedAt, result |-> result]

CacheIdle == call.pc = "returned"

CacheInit ==
    /\ HookInit
    /\ regionStore \in [RegionNames -> {NoEntry, Unreadable}]

cacheVars == <<regionPointers, pointerLoaded, pointerPc, loading, error, tetData,
               loadedRegionNames, loadingRegionsRef, regionEvictionTimersRef, timeouts,
               invocations, boundsInfo, lastOp>>

\* saveRegionDataset(name, records, updatedAt): setItem stores the payload, or
\* rejects and the catch returns null.
CallSave(name, v, updatedAt, stored) ==
    /\ CacheIdle
    /\ Len(cacheLog) < MaxCalls
    /\ regionStore' = IF stored
                      THEN [regionStore EXCEPT ![name] =
                              saveRegionDataset(RegionFile(name, v), updatedAt)]
                      ELSE regionStore
    /\ call' = Returned("saveRegionDataset", name, updatedAt,
                        IF stored THEN Value(RegionFile(name, v)) ELSE Null)
    /\ cacheLog' = Append(cacheLog, Logged("put", name, updatedAt,
                                           IF stored THEN "stored" ELSE "null"))
    /\ UNCHANGED cacheVars

\* getOrInvalidateRegion(name, expectedUpdatedAt) up to its return, or up to
\* the await of removeItem.
CallLookup(name, expectedUpdatedAt) ==
    LET existing == getRegionDataset(regionStore[name])
        found == getOrInvalidateRegion(existing, expectedUpdatedAt)
    IN /\ CacheIdle
       /\ Len(cacheLog) < MaxCalls
       /\ call' = IF found = "stale"
                  THEN [fn |-> "getOrInvalidateRegion", name |-> name,
                        updatedAt |-> expectedUpdatedAt, pc |-> "remove"]
                  ELSE Returned("getOrInvalidateRegion", name, expectedUpdatedAt,
                                IF found = "hit" THEN Value(existing.records) ELSE Null)
       /\ cacheLog' = IF found = "stale" THEN cacheLog
                      ELSE Append(cacheLog, Logged("getValid", name, expectedUpdatedAt,
                                                   IF found = "hit" THEN "records" ELSE "null"))
       /\ UNCHANGED <<regionStore, cacheVars>>

\* removeItem resolved: null is returned.
LookupRemoved ==
    /\ call.fn = "getOrInvalidateRegion"
    /\ call.pc = "remove"
    /\ regionStore' = [regionStore EXCEPT ![call.name] = NoEntry]
    /\ call' = Returned("getOrInvalidateRegion", call.name, call.updatedAt, Null)
    /\ cacheLog' = Append(cacheLog, Logged("getValid", call.name, call.updatedAt, "null"))
    /\ UNCHANGED cacheVars

\* removeItem rejected: the call rejects and the entry stays.
LookupRemoveFailed ==
    /\ call.fn = "getOrInvalidateRegion"
    /\ call.pc = "remove"
    /\ call' = [fn |-> "getOrInvalidateRegion", name |-> call.name,
                updatedAt |-> call.updatedAt, pc |-> "returned", rejected |-> TRUE]
    /\ cacheLog' = Append(cacheLog, Logged("getValid", call.name, call.updatedAt, "rejected"))
    /\ UNCHANGED <<regionStore, cacheVars>>

CacheNext ==
    \/ \E name \in RegionNames, v \in Versions, updatedAt \in Tokens, stored \in BOOLEAN :
            CallSave(name, v, updatedAt, stored)
    \/ \E name \in RegionNames, expectedUpdatedAt \in Tokens :
            CallLookup(name, expectedUpdatedAt)
    \/ LookupRemoved
    \/ LookupRemoveFailed

CacheSpec == CacheInit /\ [][CacheNext]_vars

---------------------------------------------------------------------------
(* The intersection test of loadRegionsInView on its own: hooks.jsx:196-206 *)

\* The well-formed boxes [minX, minY, maxX, maxY] on the grid 0..GridMax.
Boxes ==
    { q \in (0..GridMax) \X (0..GridMax) \X (0..GridMax) \X (0..GridMax) :
        q[1] <= q[3] /\ q[2] <= q[4] }

\* The viewport (Leaflet bounds) that covers the box.
AsBounds(box) ==
    [west |-> box[1], south |-> box[2], east |-> box[3], north |-> box[4],
     zoom |-> LOAD_THRESHOLD_ZOOM]

\* The bbox of a pointer entry that covers the viewport.
AsBbox(b) == <<b.west, b.south, b.east, b.north>>

\* The pointer entry with the given bbox.
Entry(name, bbox) == [name |-> name, bbox |-> bbox, updatedAt |-> CurrentUpdatedAt]

\* The arguments of a call that has not run yet.
Called(fn, args) == [fn |-> fn, pc |-> "called", args |-> args]

\* The hook variables of a state in which a library function is called on
\* its own.
LibInit ==
    /\ regionPointers = <<>>
    /\ pointerLoaded = FALSE
    /\ pointerPc = "idle"
    /\ loading = TRUE
    /\ error = FALSE
    /\ tetData = <<>>
    /\ loadedRegionNames = {}
    /\ loadingRegionsRef = {}
    /\ regionEvictionTimersRef = [r \in RegionNames |-> 0]
    /\ timeouts = {}
    /\ invocations = [s \in 1..MaxInvocations |-> Idle]
    /\ boundsInfo = NoBounds
    /\ lastOp = NoOp
    /\ cacheLog = <<>>
    /\ regionStore = [r \in RegionNames |-> NoEntry]

\* loadRegionsInView is called with the bounds of a viewport, the pointer
\* list holding one entry with the given bbox and no region being loaded.
GeomInit ==
    /\ LibInit
    /\ call \in { Called("intersects", [bbox |-> bbox, bounds |-> AsBounds(view)]) :
                    bbox \in Boxes, view \in Boxes }

\* loadRegionsInView up to its toLoad (hooks.jsx:198-206).
CallIntersects ==
    /\ call.fn = "intersects"
    /\ call.pc = "called"
    /\ call' = [fn |-> "intersects", pc |-> "returned",
                bbox |-> call.args.bbox, bounds |-> call.args.bounds,
                result |-> intersects(Entry(1, call.args.bbox), call.args.bounds),
                toLoad |-> ToLoad(<<Entry(1, call.args.bbox)>>, {}, call.args.bounds)]
    /\ UNCHANGED <<cacheVars, regionStore, cacheLog>>

GeomNext == CallIntersects

GeomSpec == GeomInit /\ [][GeomNext]_vars

---------------------------------------------------------------------------
(* The convex hulls: buildOutlinePolygon of the frontend utilities          *)
(* (unnamed/part_008:34-62), buildOutlinePolygon of the scraper             *)
(* (unnamed/part_011:1457-1477) and MapManager._convexHull                  *)
(* (frontend/src/map.js:447-478).                                           *)
(*                                                                         *)
(* A coordinate is a whole number of units of 0.0000001; the products of    *)
(* cross are exact.  _convexHull is taken on the projected points: what     *)
(* map.project returns is its input here, and its result is hullProj.       *)

\* The coordinates the points are drawn from: 0 and 1 differ in the seventh
\* decimal only.
Xs == {0, 1, 10}
Ys == {0, 10, 20}
Points == Xs \X Ys

PointLists == UNION { [1..n -> Points] : n \in 0..MaxPoints }

\* Number.prototype.toFixed(6) of a coordinate, as the number of millionths
\* it prints.
toFixed6(c) == (c + 5) \div 10

\* part_008:40, the key of a point: both numbers in full.
ExactKey(p) == <<p[1], p[2]>>

\* part_011:1463, the key of a point: both numbers to six decimals.
Fixed6Key(p) == <<toFixed6(p[1]), toFixed6(p[2])>>

\* The key of the deduplication, by its kind.
KeyOf(kind, p) == IF kind = "fixed6" THEN Fixed6Key(p) ELSE ExactKey(p)

\* The first point of each key, in input order (part_008:37-43, part_011:1460-1465).
Uniq(points, kind) ==
    LET first == { i \in 1..Len(points) :
                     \A j \in 1..(i - 1) : KeyOf(kind, points[j]) # KeyOf(kind, points[i]) }
        RECURSIVE Keep(_)
        Keep(i) == IF i > Len(points) THEN <<>>
                   ELSE IF i \in first THEN <<points[i]>> \o Keep(i + 1)
                   ELSE Keep(i + 1)
    IN Keep(1)

\* The comparator of the sort: a[0] === b[0] ? a[1] - b[1] : a[0] - b[0]
Before(a, b) == IF a[1] = b[1] THEN a[2] < b[2] ELSE a[1] < b[1]

\* The points as given: no sort.
Unsorted(points) == points

\* Array.prototype.sort with the comparator: a stable sort.
RECURSIVE SortPoints(_)
SortPoints(points) ==
    IF points = <<>> THEN <<>>
    ELSE LET rest == SortPoints(Tail(points))
             p == Head(points)
             k == Cardinality({ i \in 1..Len(rest) : Before(rest[i], p) })
         IN SubSeq(rest, 1, k) \o <<p>> \o SubSeq(rest, k + 1, Len(rest))

cross(o, a, b) == (a[1] - o[1]) * (b[2] - o[2]) - (a[2] - o[2]) * (b[1] - o[1])

\* while (chain.length >= 2 && cross(...) <= 0) chain.pop(); chain.push(p)
RECURSIVE PushPoint(_, _)
PushPoint(chain, p) ==
    IF Len(chain) >= 2 /\ cross(chain[Len(chain) - 1], chain[Len(chain)], p) <= 0
    THEN PushPoint(SubSeq(chain, 1, Len(chain) - 1), p)
    ELSE Append(chain, p)

RECURSIVE Chain(_, _)
Chain(chain, points) ==
    IF points = <<>> THEN chain ELSE Chain(PushPoint(chain, Head(points)), Tail(points))

Reversed(s) == [i \in 1..Len(s) |-> s[Len(s) + 1 - i]]

\* slice(0, -1)
AllButLast(s) == SubSeq(s, 1, Len(s) - 1)

\* lower.slice(0, -1).concat(upper.slice(0, -1)) of the sorted points
HullOf(sorted) ==
    AllButLast(Chain(<<>>, sorted)) \o AllButLast(Chain(<<>>, Reversed(sorted)))

NoPolygon == [null |-> TRUE, ring |-> <<>>]
Polygon(ring) == [null |-> FALSE, ring |-> ring]

\* buildOutlinePolygon with the given key of the deduplication
OutlineBy(points, kind) ==
    IF Len(points) < 3 THEN NoPolygon
    ELSE LET uniq == Uniq(points, kind)
         IN IF Len(uniq) < 3 THEN NoPolygon
            ELSE LET hull == HullOf(SortPoints(uniq))
                 IN IF Len(hull) < 3 THEN NoPolygon
                    ELSE Polygon(hull \o <<hull[1]>>)

\* unnamed/part_008:34-62
buildOutlinePolygon(points) == OutlineBy(points, "exact")

\* unnamed/part_011:1457-1477
scraper_buildOutlinePolygon(points) == OutlineBy(points, "fixed6")

\* map.js:447-472: the hull in projected coordinates
_convexHull(points) ==
    IF Len(points) < 3 THEN NoPolygon
    ELSE Polygon(HullOf(SortPoints(points)))

Apply(fn, points) ==
    IF fn = "buildOutlinePolygon" THEN buildOutlinePolygon(points)
    ELSE IF fn = "scraper_buildOutlinePolygon" THEN scraper_buildOutlinePolygon(points)
    ELSE _convexHull(points)

HullFunctions == {"buildOutlinePolygon", "scraper_buildOutlinePolygon", "_convexHull"}

HullInit ==
    /\ LibInit
    /\ call \in { Called(fn, points) : fn \in HullFunctions, points \in PointLists }

CallHull(fn) ==
    /\ call.fn = fn
    /\ call.pc = "called"
    /\ call' = [fn |-> fn, pc |-> "returned", args |-> call.args,
                result |-> Apply(fn, call.args)]
    /\ UNCHANGED <<cacheVars, regionStore, cacheLog>>

HullNext ==
    \/ CallHull("buildOutlinePolygon")
    \/ CallHull("scraper_buildOutlinePolygon")
    \/ CallHull("_convexHull")

HullSpec == HullInit /\ [][HullNext]_vars

---------------------------------------------------------------------------
(* The sector overlays of one connection type: MapManager.updateSectors     *)
(* from its call of _dbscan to the layers it adds (map.js:334-364),         *)
(* MapManager._dbscan one loop iteration at a time (map.js:392-437) and     *)
(* MapManager._centroid (map.js:440-444).                                   *)
(*                                                                         *)
(* A point is its position in metres on a plane, <<x, y>>; map.distance is  *)
(* the distance on that plane and map.project leaves the position as it is. *)

\* The positions the point lists are drawn from.
ClusterXs == {0, 100, 200}
ClusterYs == {0, 100}
ClusterPoints == ClusterXs \X ClusterYs

ClusterLists == UNION { [1..n -> ClusterPoints] : n \in 1..MaxClusterPoints }

\* Four points within 50 m of each other and two points 500 m away.
ScenarioA == << <<0, 0>>, <<30, 0>>, <<0, 30>>, <<30, 30>>, <<500, 0>>, <<530, 0>> >>

\* The same points, the far ones and a corner first.
ScenarioAShuffled == << <<530, 0>>, <<30, 30>>, <<500, 0>>, <<0, 0>>, <<0, 30>>, <<30, 0>> >>

\* Two groups of three points and one point within eps = 100 of one point of
\* each group; with minPts = 4 the point in the middle is no core point.
SharedBorder ==
    << <<0, 0>>, <<10, 10>>, <<100, 0>>, <<200, 0>>, <<300, 0>>, <<390, 10>>, <<400, 0>> >>

\* A point with one neighbour first, its neighbour with two next, and a point
\* far from the three.
BorderFirst == << <<200, 0>>, <<100, 0>>, <<100, 100>>, <<500, 500>> >>

\* epsMeters and minPts of the call
Epsilons == {50, 100}
MinPtsValues == 1..MaxMinPts

\* map.distance(a, b) <= epsMeters, on squares
WithinEps(a, b, epsMeters) ==
    (a[1] - b[1]) * (a[1] - b[1]) + (a[2] - b[2]) * (a[2] - b[2]) <= epsMeters * epsMeters

\* The neighbours of a point are the points after it only.
regionQueryForward(points, idx, epsMeters) ==
    LET Near(j) == j >= idx /\ WithinEps(points[idx], points[j], epsMeters)
    IN SelectSeq([j \in 1..Len(points) |-> j], Near)

\* map.js:399-406, the indices of the points within epsMeters, the point
\* itself included, in ascending order
regionQuery(points, idx, epsMeters) ==
    LET Near(j) == WithinEps(points[idx], points[j], epsMeters)
    IN SelectSeq([j \in 1..Len(points) |-> j], Near)

InQueue(queue, n) == \E k \in 1..Len(queue) : queue[k] = n

\* map.js:424, for (const n of n2) if (!queue.includes(n)) queue.push(n)
RECURSIVE PushNew(_, _)
PushNew(queue, n2) ==
    IF n2 = <<>> THEN queue
    ELSE PushNew(IF InQueue(queue, Head(n2)) THEN queue ELSE Append(queue, Head(n2)),
                 Tail(n2))

\* The call of _dbscan by updateSectors (map.js:337), before its first loop
\* iteration (map.js:393-397).
Clustering(points, epsMeters, minPts) ==
    [fn |-> "updateSectors", pc |-> "loop",
     points |-> points, epsMeters |-> epsMeters, minPts |-> minPts,
     i |-> 1, visited |-> {}, assigned |-> {},
     queue |-> <<>>, clusterIdxs |-> <<>>, clusters |-> <<>>,
     queries |-> <<>>, layers |-> <<>>]

Query(idx, at) == [idx |-> idx, at |-> at]

\* map.js:408-417, one iteration of the for loop up to the while loop
Visit(st) ==
    IF st.i \in st.visited THEN [st EXCEPT !.i = st.i + 1]
    ELSE LET neighbors == regionQuery(st.points, st.i, st.epsMeters)
             seen == [st EXCEPT !.visited = st.visited \cup {st.i},
                                !.queries = Append(st.queries, Query(st.i, "loop"))]
         IN IF Len(neighbors) < st.minPts
            THEN [seen EXCEPT !.i = st.i + 1]
            ELSE [seen EXCEPT !.pc = "queue",
                              !.clusterIdxs = <<>>,
                              !.queue = neighbors,
                              !.assigned = st.assigned \cup {st.i}]

\* A point taken from the queue is expanded whether it was visited or not.
DequeueWithoutVisitedTest(st) ==
    LET idx == Head(st.queue)
        n2 == regionQuery(st.points, idx, st.epsMeters)
    IN [st EXCEPT !.queries = Append(st.queries, Query(idx, "queue")),
                  !.queue = IF Len(n2) >= st.minPts THEN PushNew(Tail(st.queue), n2)
                            ELSE Tail(st.queue),
                  !.assigned = st.assigned \cup {idx},
                  !.clusterIdxs = Append(st.clusterIdxs, idx)]

\* A point taken from the queue joins the cluster only when it had not been
\* visited.
DequeueSkippingVisited(st) ==
    LET idx == Head(st.queue)
        n2 == regionQuery(st.points, idx, st.epsMeters)
    IN IF idx \in st.visited THEN [st EXCEPT !.queue = Tail(st.queue)]
       ELSE [st EXCEPT !.visited = st.visited \cup {idx},
                       !.queries = Append(st.queries, Query(idx, "queue")),
                       !.queue = IF Len(n2) >= st.minPts THEN PushNew(Tail(st.queue), n2)
                                 ELSE Tail(st.queue),
                       !.assigned = st.assigned \cup {idx},
                       !.clusterIdxs = Append(st.clusterIdxs, idx)]

\* map.js:418-431, one iteration of the while loop
Dequeue(st) ==
    LET idx == Head(st.queue)
        rest == Tail(st.queue)
        n2 == regionQuery(st.points, idx, st.epsMeters)
        expanded ==
            IF idx \in st.visited THEN [st EXCEPT !.queue = rest]
            ELSE [st EXCEPT !.visited = st.visited \cup {idx},
                            !.queries = Append(st.queries, Query(idx, "queue")),
                            !.queue = IF Len(n2) >= st.minPts THEN PushNew(rest, n2)
                                      ELSE rest]
    IN [expanded EXCEPT !.assigned = st.assigned \cup {idx},
                        !.clusterIdxs = Append(st.clusterIdxs, idx)]

\* map.js:432-434, the cluster is pushed and the for loop goes on
Materialize(st) ==
    [st EXCEPT !.pc = "loop",
               !.clusters = Append(st.clusters, st.clusterIdxs),
               !.clusterIdxs = <<>>,
               !.i = st.i + 1]

\* clusterIdxs.map((k) => points[k])
PointsOf(points, clusterIdxs) == [k \in 1..Len(clusterIdxs) |-> points[clusterIdxs[k]]]

RECURSIVE SumOf(_, _)
SumOf(pts, axis) == IF pts = <<>> THEN 0 ELSE Head(pts)[axis] + SumOf(Tail(pts), axis)

\* map.js:440-444: the two sums, and the length they are divided by
_centroid(pts) == [x |-> SumOf(pts, 1), y |-> SumOf(pts, 2), over |-> Len(pts)]

\* Math.max(epsMeters * 0.9, 60), in tenths of a metre
Radius(epsMeters) == IF epsMeters * 9 > 600 THEN epsMeters * 9 ELSE 600

NoCentre == [x |-> 0, y |-> 0, over |-> 0]

Circle(c, center, radius) ==
    [cluster |-> c, kind |-> "circle", center |-> center, radius |-> radius, ring |-> <<>>]

PolygonLayer(c, hull) ==
    [cluster |-> c, kind |-> "polygon", center |-> NoCentre, radius |-> 0, ring |-> hull]

\* map.js:339-361, the layers added for the cluster of the given number
LayersOf(points, clusters, c, epsMeters) ==
    LET cluster == PointsOf(points, clusters[c])
    IN IF Len(cluster) < 1 THEN <<>>
       ELSE IF Len(cluster) < 3
            THEN << Circle(c, _centroid(cluster), Radius(epsMeters)) >>
            ELSE LET hull == _convexHull(cluster)
                 IN IF ~hull.null /\ Len(hull.ring) >= 3
                    THEN << PolygonLayer(c, hull.ring) >>
                    ELSE <<>>

\* map.js:338, clusters.forEach: the layers of the clusters from the given
\* number on
RECURSIVE LayersFrom(_, _, _, _)
LayersFrom(points, clusters, c, epsMeters) ==
    IF c > Len(clusters) THEN <<>>
    ELSE LayersOf(points, clusters, c, epsMeters)
            \o LayersFrom(points, clusters, c + 1, epsMeters)

\* map.js:408 and 436: the for loop is over and _dbscan returns the clusters
Return(st) == [st EXCEPT !.pc = "clustered"]

\* map.js:337-363: updateSectors adds the layers of the clusters
DrawSectors(st) ==
    [st EXCEPT !.pc = "returned",
               !.layers = LayersFrom(st.points, st.clusters, 1, st.epsMeters)]

\* The step of the call that comes next.
SectorStep(st) ==
    IF st.pc = "loop"
    THEN IF st.i <= Len(st.points) THEN Visit(st) ELSE Return(st)
    ELSE IF st.pc = "clustered" THEN DrawSectors(st)
    ELSE IF st.queue # <<>> THEN Dequeue(st) ELSE Materialize(st)

\* The call run to its end.
RECURSIVE SectorsOf(_)
SectorsOf(st) == IF st.pc = "returned" THEN st ELSE SectorsOf(SectorStep(st))

SectorInputs ==
    { Clustering(points, epsMeters, minPts) :
        points \in ClusterLists, epsMeters \in Epsilons, minPts \in MinPtsValues }
    \cup { Clustering(points, 100, 3) : points \in {ScenarioA, ScenarioAShuffled, BorderFirst} }
    \cup { Clustering(SharedBorder, 100, 4) }

SectorInit ==
    /\ LibInit
    /\ call = NoCall

InSectors(pc) ==
    /\ call.fn = "updateSectors"
    /\ call.pc = pc

\* map.js:334-336, updateSectors comes to the points of one connection type
\* and calls _dbscan
UpdateSectorsCall ==
    /\ call = NoCall
    /\ call' \in SectorInputs
    /\ UNCHANGED <<cacheVars, regionStore, cacheLog>>

DbscanVisit ==
    /\ InSectors("loop")
    /\ call.i <= Len(call.points)
    /\ call' = Visit(call)
    /\ UNCHANGED <<cacheVars, regionStore, cacheLog>>

DbscanDequeue ==
    /\ InSectors("queue")
    /\ call.queue # <<>>
    /\ call' = Dequeue(call)
    /\ UNCHANGED <<cacheVars, regionStore, cacheLog>>

DbscanMaterialize ==
    /\ InSectors("queue")
    /\ call.queue = <<>>
    /\ call' = Materialize(call)
    /\ UNCHANGED <<cacheVars, regionStore, cacheLog>>

DbscanReturn ==
    /\ InSectors("loop")
    /\ call.i > Len(call.points)
    /\ call' = Return(call)
    /\ UNCHANGED <<cacheVars, regionStore, cacheLog>>

UpdateSectorsDraw ==
    /\ InSectors("clustered")
    /\ call' = DrawSectors(call)
    /\ UNCHANGED <<cacheVars, regionStore, cacheLog>>

\* The steps of _dbscan.
DbscanNext ==
    \/ DbscanVisit
    \/ DbscanDequeue
    \/ DbscanMaterialize
    \/ DbscanReturn

SectorNext ==
    \/ UpdateSectorsCall
    \/ DbscanVisit
    \/ DbscanDequeue
    \/ DbscanMaterialize
    \/ DbscanReturn
    \/ UpdateSectorsDraw

SectorSpec == SectorInit /\ [][SectorNext]_vars

\* _dbscan is one synchronous function call: once called it takes its next
\* step as long as it has one.
SectorLiveSpec == SectorSpec /\ WF_vars(DbscanNext)

---------------------------------------------------------------------------
(* The scraper's main pass over one import file and its resume after a      *)
(* crash: run (unnamed/part_011:1243-1300) and processFeatureInContext      *)
(* (unnamed/part_011:1079-1169).                                            *)
(*                                                                         *)
(* The features of the file have the ids 1..MaxFeatures in file order.     *)
(* progress and errors are the arrays of the import file as persisted; a    *)
(* push and the persistGeoJSON that follows it are one step.  A crash ends  *)
(* the process at any point: what is in flight is lost, the file stays.     *)

\* What processFeatureInContext finds for a feature: an address it can scrape,
\* no export file name (no city), or no street / house number.
FeatureKinds == {"address", "noCity", "noStreet"}

FeatureIds == 1..MaxFeatures

\* run before it has read the import file, which holds no progress yet.
Scraping(features, batchSize) ==
    [fn |-> "run", pc |-> "start", features |-> features, batchSize |-> batchSize,
     progress |-> <<>>, errors |-> <<>>,
     i |-> 1, batch |-> {}, called |-> {}, doneAtStart |-> {}, crashes |-> 0]

ElementsOf(seq) == { seq[k] : k \in 1..Len(seq) }

\* part_011:1287-1294, the while loop: from index i on, the ids that are in
\* neither set, up to batchSize of them, and the index the loop stops at
RECURSIVE Collect(_, _, _)
Collect(st, i, batch) ==
    IF i > MaxFeatures \/ Cardinality(batch) >= st.batchSize
    THEN [i |-> i, batch |-> batch]
    ELSE IF i \in ElementsOf(st.progress) \cup ElementsOf(st.errors)
         THEN Collect(st, i + 1, batch)
         ELSE Collect(st, i + 1, batch \cup {i})

\* part_011:1085-1088, 1089-1095, 1147-1155 and 1158-1167: how the call for
\* feature f ends, given whether the scrape succeeded
Processed(st, f, scraped) ==
    LET rest == [st EXCEPT !.batch = st.batch \ {f}]
    IN IF st.features[f] = "noCity" THEN rest
       ELSE IF st.features[f] = "noStreet" \/ ~scraped
            THEN [rest EXCEPT !.errors = Append(st.errors, f)]
            ELSE [rest EXCEPT !.progress = Append(st.progress, f)]

ScraperInit ==
    /\ LibInit
    /\ call \in { Scraping(features, batchSize) :
                    features \in [FeatureIds -> FeatureKinds], batchSize \in 1..MaxBatch }

\* part_011:1256-1277: the file is read, progressSet and errorSet are built
\* and the main pass starts after the feature whose id is the last of progress
RunReadImport ==
    /\ call.fn = "run"
    /\ call.pc = "start"
    /\ call' = [call EXCEPT
                  !.pc = "collect",
                  !.i = IF call.progress = <<>> THEN 1
                        ELSE call.progress[Len(call.progress)] + 1,
                  !.batch = {},
                  !.called = {},
                  !.doneAtStart = ElementsOf(call.progress) \cup ElementsOf(call.errors)]
    /\ UNCHANGED <<cacheVars, regionStore, cacheLog>>

\* part_011:1283-1296, one iteration of the for loop up to its await
RunNextBatch ==
    /\ call.fn = "run"
    /\ call.pc = "collect"
    /\ LET c == Collect(call, call.i, {})
       IN call' = IF call.i > MaxFeatures \/ c.batch = {}
                  THEN [call EXCEPT !.pc = "mainDone", !.i = c.i]
                  ELSE [call EXCEPT !.pc = "await", !.i = c.i, !.batch = c.batch,
                                    !.called = call.called \cup c.batch]
    /\ UNCHANGED <<cacheVars, regionStore, cacheLog>>

\* One call of the batch comes to its end; the calls end in any order.
FeatureProcessed(f, scraped) ==
    /\ call.fn = "run"
    /\ call.pc = "await"
    /\ f \in call.batch
    /\ call' = Processed(call, f, scraped)
    /\ UNCHANGED <<cacheVars, regionStore, cacheLog>>

\* part_011:1295, Promise.all resolves
RunBatchDone ==
    /\ call.fn = "run"
    /\ call.pc = "await"
    /\ call.batch = {}
    /\ call' = [call EXCEPT !.pc = "collect"]
    /\ UNCHANGED <<cacheVars, regionStore, cacheLog>>

\* The process dies and is started again: the file is all that is left.
Crash ==
    /\ call.fn = "run"
    /\ call.pc # "start"
    /\ call.crashes < MaxCrashes
    /\ call' = [call EXCEPT !.pc = "start", !.batch = {}, !.crashes = call.crashes + 1]
    /\ UNCHANGED <<cacheVars, regionStore, cacheLog>>

ScraperNext ==
    \/ RunReadImport
    \/ RunNextBatch
    \/ \E f \in FeatureIds, scraped \in BOOLEAN : FeatureProcessed(f, scraped)
    \/ RunBatchDone
    \/ Crash

ScraperSpec == ScraperInit /\ [][ScraperNext]_vars

---------------------------------------------------------------------------
(* Properties *)

Active(s) == invocations[s].pc # "idle"
LoadsOf(r) == { s \in 1..MaxInvocations : Active(s) /\ invocations[s].region = r }
PointersLoaded == Len(regionPointers) # 0
RecordsOf(data, r) == { i \in 1..Len(data) : data[i].regionName = r }

\* C1: at any time at most one load (cache lookup, fetch, save and merge) is
\* in flight per region, and a region has a load in flight exactly when it is
\* marked in loadingRegionsRef: overlapping loadRegionsInView activations never
\* start a second load of a region that is Loading.
C1_OneLoadPerRegion ==
    \A r \in RegionNames :
        /\ Cardinality(LoadsOf(r)) <= 1
        /\ r \in loadingRegionsRef <=> LoadsOf(r) # {}

\* C1 witness: a viewport event arrived while a region it selects was Loading;
\* the new activation passed over that region and started the next one.
C1_Witness ==
    /\ lastOp.op = "viewport"
    /\ \E s, t \in 1..MaxInvocations :
        /\ s # t /\ Active(s) /\ Active(t)
        /\ invocations[s].region \notin loadedRegionNames
        /\ intersects(Pointer(invocations[s].region), boundsInfo)
        /\ intersects(Pointer(invocations[t].region), boundsInfo)
        /\ invocations[s].rest = <<invocations[t].region>>

\* C2 as claimed: a load is started only for a region that is NotLoaded, so
\* no region is at once Loaded and being loaded (and merged a second time).
C2_NoLoadOfLoaded ==
    loadedRegionNames \cap loadingRegionsRef = {}

\* C3 as claimed: after a viewport event below the load threshold the
\* WorkingSet is empty and every region is NotLoaded: none Loaded, none Loading.
C3_LowZoomResetsAll ==
    (lastOp.op = "viewport" /\ boundsInfo.zoom < LOAD_THRESHOLD_ZOOM)
        => /\ tetData = <<>>
           /\ loadedRegionNames = {}
           /\ loadingRegionsRef = {}

\* C3 amended: after a viewport event below the load threshold the WorkingSet
\* is empty and no region is Loaded; the regions that are Loading stay Loading
\* and their activations go on untouched.
C3_LowZoomClearsLoaded ==
    [][\A v \in Views :
        (handleViewportChange(v) /\ v.zoom < LOAD_THRESHOLD_ZOOM)
            => /\ tetData' = <<>>
               /\ loadedRegionNames' = {}
               /\ loadingRegionsRef' = loadingRegionsRef
               /\ invocations' = invocations]_vars

\* C3 witness: a low-zoom event has cleared loaded data (it removed a pending
\* eviction timer, so a region was Loaded) while another region was Loading.
C3_Witness ==
    /\ lastOp.op = "viewport"
    /\ boundsInfo.zoom < LOAD_THRESHOLD_ZOOM
    /\ lastOp.cancelled # {}
    /\ loadingRegionsRef # {}
    /\ tetData = <<>>

LoadSteps == {"loaded", "failed", "fetch", "cacheRemove", "save"}

\* The records a completing step of slot s merges: the fetched ones after the
\* save, the cached ones on a hit.
BatchOf(s) ==
    IF invocations[s].pc = "save" THEN invocations[s].records
    ELSE regionStore[invocations[s].region].records

Completes(s) == CacheHit(s) \/ \E stored \in BOOLEAN : Saved(s, stored)

InData(data, rec) == \E i \in 1..Len(data) : data[i] = rec

\* C4: an in-flight load is never cancelled by a viewport event: only its own
\* steps change an activation; when its calls succeed its records are in the
\* WorkingSet and the region is Loaded, whatever the viewport is by then; and a
\* viewport event at zoom >= threshold that does not intersect a Loaded region
\* leaves an eviction timer pending for it.
C4_InFlightLoadCompletes ==
    [][/\ \A s \in 1..MaxInvocations :
            (Active(s) /\ invocations'[s] # invocations[s])
                => /\ lastOp'.op \in LoadSteps
                   /\ lastOp'.region = invocations[s].region
       /\ \A s \in 1..MaxInvocations :
            Completes(s)
                => /\ invocations[s].region \in loadedRegionNames'
                   /\ \A k \in 1..Len(BatchOf(s)) :
                        InData(tetData', Tagged(BatchOf(s), invocations[s].region)[k])
       /\ \A v \in Views :
            (handleViewportChange(v) /\ v.zoom >= LOAD_THRESHOLD_ZOOM)
                => \A r \in loadedRegionNames :
                     ~intersects(Pointer(r), v)
                        => /\ regionEvictionTimersRef'[r] # 0
                           /\ [id |-> regionEvictionTimersRef'[r], regionName |-> r] \in timeouts'
      ]_vars

\* C4 witness: a load has completed for a region the latest viewport (at
\* zoom >= threshold) does not intersect; the region is Loaded with its records.
C4_Witness ==
    /\ lastOp.op = "loaded"
    /\ boundsInfo.zoom >= LOAD_THRESHOLD_ZOOM
    /\ ~intersects(Pointer(lastOp.region), boundsInfo)
    /\ lastOp.region \in loadedRegionNames
    /\ RecordsOf(tetData, lastOp.region) # {}

HighEvent(v) == handleViewportChange(v) /\ v.zoom >= LOAD_THRESHOLD_ZOOM

Fails(s) == FetchFailed(s) \/ CacheRemoveFailed(s)

\* A region the event has to load: in the pointer, intersecting, neither
\* Loaded nor Loading.
Selectable(r, v) ==
    /\ PointersLoaded
    /\ intersects(Pointer(r), v)
    /\ r \notin loadedRegionNames
    /\ r \notin loadingRegionsRef

InSeq(x, q) == \E i \in 1..Len(q) : q[i] = x

\* When the load of a region fails the region is no longer Loading and the
\* WorkingSet and the set of Loaded regions are unchanged.
FailureReverts ==
    \A s \in 1..MaxInvocations :
        Fails(s) => /\ invocations[s].region \notin loadingRegionsRef'
                    /\ tetData' = tetData
                    /\ loadedRegionNames' = loadedRegionNames

\* C5 as claimed: a failed load returns the region to NotLoaded with the
\* WorkingSet and the Loaded set unchanged, and the next viewport event
\* (zoom >= threshold) that intersects a region which is NotLoaded starts a
\* load of it: the region is Loading when the event has been handled.
C5_FailedLoadRetriedAtOnce ==
    [][/\ FailureReverts
       /\ \A v \in Views :
            HighEvent(v) => \A r \in RegionNames :
                                Selectable(r, v) => r \in loadingRegionsRef'
      ]_vars

\* C5 amended: the failure part as claimed; the next viewport event
\* (zoom >= threshold) that intersects a NotLoaded region puts it on the list
\* of the activation the event starts: the first region of the list is Loading
\* at once, a later one is loaded when the loop has finished the regions
\* before it.
C5_FailedLoadSelectedAgain ==
    [][/\ FailureReverts
       /\ \A v \in Views :
            HighEvent(v) => \A r \in RegionNames :
                Selectable(r, v)
                    => \E s \in 1..MaxInvocations :
                        /\ ~Active(s)
                        /\ invocations'[s].pc = "cacheGet"
                        /\ invocations'[s].region \in loadingRegionsRef'
                        /\ Selectable(invocations'[s].region, v)
                        /\ \/ invocations'[s].region = r
                           \/ /\ InSeq(r, invocations'[s].rest)
                              /\ invocations'[s].region < r
      ]_vars

\* C5 witness: a load has just failed and left its region NotLoaded, in view
\* of the latest viewport, so that the next such event selects it again.
C5_Witness ==
    /\ lastOp.op = "failed"
    /\ lastOp.region \notin loadingRegionsRef
    /\ lastOp.region \notin loadedRegionNames
    /\ boundsInfo.zoom >= LOAD_THRESHOLD_ZOOM
    /\ intersects(Pointer(lastOp.region), boundsInfo)

PendingFor(pending, r) == { t \in pending : t.regionName = r }

\* C6 as claimed: a viewport event (zoom >= threshold) that does not intersect
\* a Loaded region starts an eviction timer for it if none is pending, and when
\* the timer expires no record of the region is in the WorkingSet and the
\* region is NotLoaded: neither Loaded nor Loading.
C6_EvictionLeavesNotLoaded ==
    [][/\ \A v \in Views :
            HighEvent(v) => \A r \in loadedRegionNames :
                ~intersects(Pointer(r), v)
                    => /\ PendingFor(timeouts', r) # {}
                       /\ regionEvictionTimersRef[r] = 0 => PendingFor(timeouts, r) = {}
       /\ \A t \in timeouts :
            EvictionTimeout(t)
                => /\ RecordsOf(tetData', t.regionName) = {}
                   /\ \A i \in 1..Len(tetData') : tetData'[i].id \notin RegionIds(t.regionName)
                   /\ t.regionName \notin loadedRegionNames'
                   /\ t.regionName \notin loadingRegionsRef'
      ]_vars

\* C7: when a viewport event (zoom >= threshold) intersects a region that has
\* a pending eviction timer, the timer is cancelled: the map entry is gone and
\* the timeout is no longer pending, so it can never fire; the event leaves the
\* WorkingSet as it is.
C7_ReentryCancelsTimer ==
    [][\A v \in Views :
        HighEvent(v) => \A r \in RegionNames :
            (regionEvictionTimersRef[r] # 0 /\ intersects(Pointer(r), v))
                => /\ regionEvictionTimersRef'[r] = 0
                   /\ PendingFor(timeouts', r) = {}
                   /\ tetData' = tetData
                   /\ r \in loadedRegionNames'
      ]_vars

\* C7 witness: a viewport event has cancelled the pending timer of a region
\* that re-entered the viewport; the region is Loaded and its records are in
\* the WorkingSet.
C7_Witness ==
    /\ lastOp.op = "viewport"
    /\ boundsInfo.zoom >= LOAD_THRESHOLD_ZOOM
    /\ \E r \in lastOp.cancelled :
        /\ intersects(Pointer(r), boundsInfo)
        /\ r \in loadedRegionNames
        /\ RecordsOf(tetData, r) # {}
        /\ PendingFor(timeouts, r) = {}

\* C8: there is never more than one pending eviction timeout per region, the
\* map entry of a region names its pending timeout, and scheduling the
\* eviction of a region again while its timer is pending changes neither the
\* handle nor the pending timeout.
C8_OneTimerPerRegion ==
    [][/\ \A r \in RegionNames :
            /\ Cardinality(PendingFor(timeouts', r)) <= 1
            /\ \A t \in PendingFor(timeouts', r) : regionEvictionTimersRef'[r] = t.id
       /\ \A v \in Views :
            HighEvent(v) => \A r \in loadedRegionNames :
                (regionEvictionTimersRef[r] # 0 /\ ~intersects(Pointer(r), v))
                    => /\ regionEvictionTimersRef'[r] = regionEvictionTimersRef[r]
                       /\ PendingFor(timeouts', r) = PendingFor(timeouts, r)
      ]_vars

\* C8 witness: a viewport event has scheduled the eviction of a region whose
\* timer was already pending; exactly one timeout is pending for it.
C8_Witness ==
    /\ lastOp.op = "viewport"
    /\ \E r \in lastOp.again :
        /\ Cardinality(PendingFor(timeouts, r)) = 1
        /\ regionEvictionTimersRef[r] # 0

Reenters(r) == \E v \in Views : HighEvent(v) /\ intersects(Pointer(r), v)

\* C9 as claimed: a pending eviction timeout stops being pending only because
\* it fires or because its region re-enters the viewport (a viewport event at
\* zoom >= threshold that intersects the region).
C9_OnlyReentryCancels ==
    [][\A t \in timeouts :
        t \notin timeouts' => EvictionTimeout(t) \/ Reenters(t.regionName)]_vars

\* C9 amended: a pending eviction timeout stops being pending only because it
\* fires, because its region re-enters the viewport, or because a viewport
\* event below the load threshold clears all timers.
C9_ReentryOrLowZoomCancels ==
    [][\A t \in timeouts :
        t \notin timeouts'
            => \/ EvictionTimeout(t)
               \/ Reenters(t.regionName)
               \/ \E v \in Views : handleViewportChange(v) /\ v.zoom < LOAD_THRESHOLD_ZOOM
      ]_vars

\* C9 witness: a viewport event below the load threshold has removed a pending
\* eviction timer.
C9_Witness ==
    /\ lastOp.op = "viewport"
    /\ boundsInfo.zoom < LOAD_THRESHOLD_ZOOM
    /\ lastOp.cancelled # {}
    /\ timeouts = {}

UniqueIds(data) ==
    \A i, j \in 1..Len(data) : data[i].id = data[j].id => i = j

IdsOf(recs) == { recs[k].id : k \in 1..Len(recs) }

\* C10: the WorkingSet never holds two records with the same id; after a merge
\* every record of the merged batch is in the WorkingSet, tagged with its
\* region, as the only record with its id, and the records with other ids are
\* the ones that were there before.
C10_KeyedById ==
    [][/\ UniqueIds(tetData')
       /\ \A s \in 1..MaxInvocations :
            Completes(s)
                => LET batch == Tagged(BatchOf(s), invocations[s].region)
                   IN /\ \A k \in 1..Len(batch) : InData(tetData', batch[k])
                      /\ \A i \in 1..Len(tetData) :
                            tetData[i].id \notin IdsOf(batch) => InData(tetData', tetData[i])
                      /\ \A i \in 1..Len(tetData') :
                            tetData'[i].id \notin IdsOf(batch) => InData(tetData, tetData'[i])
      ]_vars

\* C10 witness: the region merged last has its records ahead of another
\* region's in the WorkingSet: they were there before the merge and the merge
\* overwrote them in place, here with another version of the records.
C10_Witness ==
    /\ lastOp.op = "loaded"
    /\ Len(tetData) > RecordsPerRegion
    /\ tetData[1].regionName = lastOp.region
    /\ tetData[Len(tetData)].regionName # lastOp.region
    /\ tetData[1].ver # tetData[Len(tetData)].ver
    /\ regionStore[lastOp.region].present
    /\ regionStore[lastOp.region].records[1].ver = tetData[1].ver

---------------------------------------------------------------------------
(* The region cache: main.jsx:198-219 *)

\* The lookup of name returns the records of the entry, at once, and leaves
\* the store as it is.
ReturnsRecords(name) ==
    /\ call'.pc = "returned"
    /\ call'.result = Value(regionStore[name].records)
    /\ regionStore' = regionStore

\* The lookup gives no records: it returns null at once, or it awaits the
\* removal of the entry (which ends in null or in a rejection).
ReturnsNoRecords ==
    \/ call'.pc = "remove"
    \/ call'.pc = "returned" /\ call'.result = Null

\* When the removal the lookup awaits is done, the entry of the name is gone,
\* the other entries are untouched and the call returns null.
RemovalPurges ==
    LookupRemoved
        => /\ ~regionStore'[call.name].present
           /\ \A other \in RegionNames \ {call.name} : regionStore'[other] = regionStore[other]
           /\ call'.result = Null

Readable(name) == regionStore[name].present /\ regionStore[name] # Unreadable

\* C11 as claimed: for every name and every expected token, the absent one
\* included, getOrInvalidateRegion returns the cached records only if an entry
\* is present and its updatedAt equals the expected token; otherwise it gives
\* no records, and on a mismatch the stale entry is removed before null is
\* returned.
C11_RecordsOnlyOnEqualToken ==
    [][/\ \A name \in RegionNames, expected \in Tokens :
            CallLookup(name, expected)
                => IF Readable(name) /\ regionStore[name].updatedAt = expected
                   THEN ReturnsRecords(name)
                   ELSE /\ ReturnsNoRecords
                        /\ Readable(name) => call'.pc = "remove"
       /\ RemovalPurges
      ]_vars

\* C11 amended: getOrInvalidateRegion returns the cached records exactly when
\* an entry is present (and can be read) and the expected token is absent or
\* equals the entry's updatedAt; otherwise it gives no records, and on a mismatch (a present
\* token that differs) the stale entry is removed before null is returned.
C11_RecordsOnAbsentOrEqualToken ==
    [][/\ \A name \in RegionNames, expected \in Tokens :
            CallLookup(name, expected)
                => IF Readable(name)
                      /\ (expected = "" \/ regionStore[name].updatedAt = expected)
                   THEN ReturnsRecords(name)
                   ELSE /\ ReturnsNoRecords
                        /\ Readable(name) => call'.pc = "remove"
       /\ RemovalPurges
      ]_vars

\* C11 witness: a lookup with a present token has purged a stale entry and
\* returned null, after a lookup without a token had returned records.
C11_Witness ==
    /\ call.fn = "getOrInvalidateRegion"
    /\ call.pc = "returned"
    /\ call.updatedAt # ""
    /\ cacheLog # <<>>
    /\ cacheLog[Len(cacheLog)] = Logged("getValid", call.name, call.updatedAt, "null")
    /\ ~regionStore[call.name].present
    /\ \E i \in 1..Len(cacheLog), j \in 1..Len(cacheLog) :
        /\ i < j /\ j < Len(cacheLog)
        /\ cacheLog[i].fn = "put" /\ cacheLog[i].name = call.name
        /\ cacheLog[i].result = "stored" /\ cacheLog[i].updatedAt \notin {"", call.updatedAt}
        /\ cacheLog[j] = Logged("getValid", call.name, "", "records")

\* Entry i of the log is a put that stored an entry for the name.
StoredPut(log, i, name) ==
    /\ log[i].fn = "put"
    /\ log[i].name = name
    /\ log[i].result = "stored"

\* The updatedAt an entry carries after a put with the given argument: the
\* argument, or the time of the call when none was given.
StoredToken(updatedAt) == IF updatedAt = "" THEN "now" ELSE updatedAt

\* The law as claimed, for the lookup at entry k of the log: a put of the same
\* name and token came before it and no put of the name with another token
\* came in between.
PutThenNoOtherPut(log, k) ==
    \E i \in 1..(k - 1) :
        /\ StoredPut(log, i, log[k].name)
        /\ log[i].updatedAt = log[k].updatedAt
        /\ \A j \in (i + 1)..(k - 1) :
            ~(StoredPut(log, j, log[k].name) /\ log[j].updatedAt # log[k].updatedAt)

\* The law as amended: the latest put of the name carried the token of the
\* lookup (or carried none and the lookup asks for the time that put was
\* made), or the lookup has no token; and no lookup of the name with another
\* present token returned null since that put.
LatestPutNotPurged(log, k) ==
    \E i \in 1..(k - 1) :
        /\ StoredPut(log, i, log[k].name)
        /\ \A j \in (i + 1)..(k - 1) : ~StoredPut(log, j, log[k].name)
        /\ \/ log[k].updatedAt = ""
           \/ log[i].updatedAt = log[k].updatedAt
           \/ log[i].updatedAt = "" /\ log[k].updatedAt = StoredToken("")
        /\ \A j \in (i + 1)..(k - 1) :
            ~(/\ log[j].fn = "getValid"
              /\ log[j].name = log[k].name
              /\ log[j].result = "null"
              /\ log[j].updatedAt \notin {"", StoredToken(log[i].updatedAt)})

\* C12 as claimed: over any sequence of put and getValid calls, getValid(name,
\* ts) returns non-null if and only if a put(name, _, ts) came before it and
\* no put of the name with a different ts came after that put.
C12_PutDecidesLookup ==
    \A k \in 1..Len(cacheLog) :
        cacheLog[k].fn = "getValid"
            => (cacheLog[k].result = "records" <=> PutThenNoOtherPut(cacheLog, k))

\* C12 amended: getValid(name, ts) returns non-null if and only if a put has
\* stored an entry for the name, the entry of the latest such put carries ts
\* (the updatedAt given to the put, or the time of the put when none was
\* given) or ts is absent, and since that put no getValid of the name with
\* another present token has returned null (which purges the entry).
C12_LatestPutUnlessPurged ==
    \A k \in 1..Len(cacheLog) :
        cacheLog[k].fn = "getValid"
            => (cacheLog[k].result = "records" <=> LatestPutNotPurged(cacheLog, k))

\* C12 witness: a put stored an entry, a lookup with another token purged it,
\* and the lookup with the token of the put returned null.
C12_Witness ==
    /\ Len(cacheLog) = 3
    /\ StoredPut(cacheLog, 1, cacheLog[3].name)
    /\ cacheLog[1].updatedAt = CurrentUpdatedAt
    /\ cacheLog[2] = Logged("getValid", cacheLog[3].name, OldUpdatedAt, "null")
    /\ cacheLog[3] = Logged("getValid", cacheLog[1].name, CurrentUpdatedAt, "null")
    /\ call.pc = "returned"
    /\ call.result = Null

---------------------------------------------------------------------------
(* The loader and the cache: hooks.jsx:210-238 *)

\* The activation in slot s takes the step; r is the region it is loading.
StepsAt(s, pc) ==
    /\ invocations[s].pc = pc
    /\ invocations'[s] # invocations[s]

\* The entry the store holds for region r matches the pointer's updatedAt.
ValidEntry(r) ==
    /\ regionStore[r].present
    /\ regionStore[r].updatedAt = Pointer(r).updatedAt

\* The step merges recs as the records of region r and marks r Loaded.
MergesNow(r, recs) ==
    /\ r \in loadedRegionNames'
    /\ \A k \in 1..Len(recs) : InData(tetData', Tagged(recs, r)[k])

\* The step goes on to the await pc of the same load and merges nothing.
GoesTo(s, pc) ==
    /\ invocations'[s].pc = pc
    /\ invocations'[s].region = invocations[s].region
    /\ tetData' = tetData
    /\ loadedRegionNames' = loadedRegionNames

\* C13: loading a region consults the cache first.  With a valid cached entry
\* the cached records are merged and no fetch is issued; with no entry the
\* region is fetched; with a stale entry the entry is purged, then the region is
\* fetched.  The fetched records are stored under the pointer's updatedAt
\* (when setItem succeeds the cache holds exactly that entry) and merged after
\* the store call has returned.
C13_CacheFirst ==
    [][\A s \in 1..MaxInvocations :
        LET r == invocations[s].region
        IN /\ StepsAt(s, "cacheGet")
                => IF ValidEntry(r)
                   THEN /\ MergesNow(r, regionStore[r].records)
                        /\ regionStore' = regionStore
                        /\ ~(invocations'[s].region = r /\ invocations'[s].pc = "fetch")
                   ELSE /\ regionStore' = regionStore
                        /\ IF regionStore[r].present
                           THEN GoesTo(s, "cacheRemove")
                           ELSE GoesTo(s, "fetch")
           /\ StepsAt(s, "cacheRemove")
                => \/ GoesTo(s, "fetch") /\ ~regionStore'[r].present
                   \/ Fails(s) /\ regionStore' = regionStore
           /\ StepsAt(s, "fetch")
                => \/ /\ GoesTo(s, "save")
                      /\ regionStore' = regionStore
                      /\ \E v \in Versions : invocations'[s].records = RegionFile(r, v)
                   \/ Fails(s) /\ regionStore' = regionStore
           /\ StepsAt(s, "save")
                => /\ MergesNow(r, invocations[s].records)
                   /\ Saved(s, TRUE)
                        => regionStore'[r] = [present |-> TRUE,
                                              updatedAt |-> Pointer(r).updatedAt,
                                              records |-> invocations[s].records]
                   /\ Saved(s, FALSE) => regionStore' = regionStore
           /\ (invocations'[s].pc = "fetch" /\ invocations[s].pc # "fetch")
                => /\ invocations[s].pc \in {"cacheGet", "cacheRemove"}
                   /\ ~ValidEntry(r)
                   /\ ~regionStore'[r].present
      ]_vars

\* C13 witness: a region has been loaded by a fetch: the cache holds an entry
\* with the pointer's updatedAt whose records are the fetched ones (a content
\* the store did not hold at the start), and they are in the WorkingSet.
C13_Witness ==
    /\ lastOp.op = "loaded"
    /\ lastOp.region \in loadedRegionNames
    /\ regionStore[lastOp.region].present
    /\ regionStore[lastOp.region].updatedAt = CurrentUpdatedAt
    /\ regionStore[lastOp.region].records = RegionFile(lastOp.region, MaxVersion)
    /\ \A k \in 1..RecordsPerRegion :
        InData(tetData, Tagged(RegionFile(lastOp.region, MaxVersion), lastOp.region)[k])

---------------------------------------------------------------------------
(* Unreadable cache entries: main.jsx:198-200, 211-213 *)

\* C14 as claimed: when the stored entry of a region cannot be read, the
\* lookup is a cache miss (null is returned, so the region is fetched) and the
\* corrupt entry is deleted from the store.
C14_CorruptEntryDeleted ==
    [][\A name \in RegionNames, expected \in Tokens :
        (CallLookup(name, expected) /\ regionStore[name] = Unreadable)
            => /\ call'.pc = "returned"
               /\ call'.result = Null
               /\ ~regionStore'[name].present
      ]_vars

---------------------------------------------------------------------------
(* Malformed lines of a region file: utils.js:91-110, hooks.jsx:223-226 *)

Malformed(line) ==
    \/ line.kind = "text"
    \/ line.kind = "json" /\ ~isValidTETProperty(line)

\* The records of the lines of text that are well-formed records.
ValidRecordsOf(text) ==
    LET WellFormed(line) == line.kind = "json" /\ isValidTETProperty(line)
    IN AsRecords(SelectSeq(text, WellFormed))

\* C15 as claimed: a fetched payload with a malformed line (text that is not
\* JSON, or an object failing the shape validation) still loads: the malformed
\* line is skipped and the load goes on to store and merge the records of the
\* remaining lines.
C15_MalformedLineSkipped ==
    [][\A s \in 1..MaxInvocations :
        invocations[s].pc = "fetch"
            => \A text \in Payloads(invocations[s].region) :
                (FetchedText(s, text) /\ \E i \in 1..Len(text) : Malformed(text[i]))
                    => /\ invocations'[s].pc = "save"
                       /\ invocations'[s].region = invocations[s].region
                       /\ invocations'[s].records = ValidRecordsOf(text)
                       /\ invocations[s].region \in loadingRegionsRef'
      ]_vars

---------------------------------------------------------------------------
(* The catalog fetch: hooks.jsx:138-169 *)

\* No region is Loaded or Loading and the WorkingSet is empty.
NothingLoaded ==
    /\ tetData = <<>>
    /\ loadedRegionNames = {}
    /\ loadingRegionsRef = {}
    /\ \A s \in 1..MaxInvocations : ~Active(s)

\* C16: the pointer.json fetch is issued at most once: only while the mark
\* pointerLoaded is unset, and the mark is never cleared.  When the fetch fails
\* the error is set and the loading flag cleared, the list of pointers stays
\* empty, so no region is ever loaded, and no further fetch is issued.
C16_CatalogFetchedOnce ==
    [][/\ (pointerPc' = "get" /\ pointerPc # "get")
            => ~pointerLoaded /\ pointerPc = "idle" /\ LoadPointer
       /\ pointerLoaded => pointerLoaded'
       /\ PointerFetchFailed
            => /\ error' /\ ~loading'
               /\ regionPointers' = <<>>
               /\ pointerPc' = "done"
       /\ error
            => /\ error' /\ ~loading'
               /\ regionPointers' = <<>>
               /\ pointerPc' = "done"
               /\ pointerLoaded'
               /\ NothingLoaded'
      ]_vars

\* C16 witness: after the catalog fetch has failed, a viewport event at the
\* threshold zoom over both region boxes has left every region NotLoaded.
C16_Witness ==
    /\ error
    /\ ~loading
    /\ pointerLoaded
    /\ lastOp.op = "viewport"
    /\ boundsInfo.zoom >= LOAD_THRESHOLD_ZOOM
    /\ \A i \in 1..Len(PointerJson) : intersects(PointerJson[i], boundsInfo)
    /\ regionPointers = <<>>
    /\ NothingLoaded

---------------------------------------------------------------------------
(* The box intersection test: hooks.jsx:198-206 *)

\* The two boxes share a point: some x lies in both x-ranges and some y in
\* both y-ranges (the ranges are closed, so touching boxes share a point).
SharePoint(bbox, b) ==
    /\ \E x \in 0..GridMax : bbox[1] <= x /\ x <= bbox[3] /\ b.west <= x /\ x <= b.east
    /\ \E y \in 0..GridMax : bbox[2] <= y /\ y <= bbox[4] /\ b.south <= y /\ y <= b.north

\* C17: the intersection test is the overlap of closed axis-aligned boxes: it
\* is true exactly when neither box lies entirely outside the other on an
\* axis, so boxes that only touch at an edge or a corner intersect; and the
\* entry that intersects is the one selected for loading.
C17_TouchingBoxesIntersect ==
    (call.fn = "intersects" /\ call.pc = "returned")
        => /\ call.result <=> SharePoint(call.bbox, call.bounds)
           /\ call.toLoad = IF SharePoint(call.bbox, call.bounds) THEN <<1>> ELSE <<>>

\* C17 witness: a region box that touches the viewport at one corner only was
\* found to intersect and was selected for loading.
C17_Witness ==
    /\ call.fn = "intersects"
    /\ call.pc = "returned"
    /\ call.bbox[3] = call.bounds.west
    /\ call.bbox[4] = call.bounds.south
    /\ call.bbox[1] < call.bbox[3]
    /\ call.bbox[2] < call.bbox[4]
    /\ call.bounds.west < call.bounds.east
    /\ call.bounds.south < call.bounds.north
    /\ call.result
    /\ call.toLoad = <<1>>

\* C18: the intersection test is symmetric: for well-formed boxes a and b,
\* a as the region box against b as the viewport gives what b as the region
\* box against a as the viewport gives.
C18_IntersectsSymmetric ==
    (call.fn = "intersects" /\ call.pc = "returned")
        => call.result = intersects(Entry(1, AsBbox(call.bounds)), AsBounds(call.bbox))

\* C18 witness: two different boxes, the first ending on the x-axis where the
\* second begins, were found to intersect.
C18_Witness ==
    /\ call.fn = "intersects"
    /\ call.pc = "returned"
    /\ call.bbox # AsBbox(call.bounds)
    /\ call.bbox[3] = call.bounds.west
    /\ call.bbox[1] < call.bounds.west
    /\ call.result
    /\ intersects(Entry(1, AsBbox(call.bounds)), AsBounds(call.bbox))

---------------------------------------------------------------------------
(* The hulls: unnamed/part_008:34-62, unnamed/part_011:1457-1477,          *)
(* frontend/src/map.js:447-478                                             *)

HullReturned(fns) ==
    /\ call.fn \in fns
    /\ call.pc = "returned"

\* The orders the same points can be given in.
Permutations(n) ==
    { f \in [1..n -> 1..n] : \A i, j \in 1..n : f[i] = f[j] => i = j }

Permuted(points, f) == [i \in 1..Len(points) |-> points[f[i]]]

\* C19 as claimed: for every permutation of the same input point list,
\* duplicates included, buildOutlinePolygon (of the frontend utilities and of
\* the scraper) returns the identical ring: same vertices, same order, same
\* start vertex; or null for every permutation.
C19_HullOfAnyOrder ==
    HullReturned({"buildOutlinePolygon", "scraper_buildOutlinePolygon"})
        => \A f \in Permutations(Len(call.args)) :
            Apply(call.fn, Permuted(call.args, f)) = call.result

\* The directed edges of a ring, the one from its last vertex back to its
\* first included.
Edges(ring) == { <<ring[i], ring[(i % Len(ring)) + 1]>> : i \in 1..Len(ring) }

IsPolygon(result) == ~result.null /\ Len(result.ring) >= 3

\* C20: whenever buildOutlinePolygon or _convexHull returns a polygon, every
\* input point lies on or inside it: for every input point p and every
\* directed edge of the ring, p is not strictly outside the half-plane of the
\* edge; and every vertex of the ring is one of the input points.
C20_HullContainsInput ==
    (HullReturned({"buildOutlinePolygon", "_convexHull"}) /\ IsPolygon(call.result))
        => /\ \A i \in 1..Len(call.args) : \A e \in Edges(call.result.ring) :
                cross(e[1], e[2], call.args[i]) >= 0
           /\ \A k \in 1..Len(call.result.ring) :
                \E i \in 1..Len(call.args) : call.result.ring[k] = call.args[i]

\* C20 witness: a polygon was returned for an input given out of order that
\* holds a point strictly inside the polygon.
C20_Witness ==
    /\ HullReturned({"buildOutlinePolygon", "_convexHull"})
    /\ IsPolygon(call.result)
    /\ SortPoints(call.args) # call.args
    /\ \E i \in 1..Len(call.args) :
        \A e \in Edges(call.result.ring) :
            e[1] # e[2] => cross(e[1], e[2], call.args[i]) > 0

\* The distinct points of a list: exact coordinate match.
DistinctPoints(points) == { points[i] : i \in 1..Len(points) }

\* The ring is closed and no vertex but the first is repeated.
ClosedSimpleRing(ring) ==
    /\ Len(ring) >= 4
    /\ ring[Len(ring)] = ring[1]
    /\ \A i, j \in 1..(Len(ring) - 1) : ring[i] = ring[j] => i = j

\* C21 as claimed: buildOutlinePolygon (of the frontend utilities and of the
\* scraper) returns null when the input holds fewer than 3 distinct points,
\* two points being the same only when both coordinates match exactly; given
\* at least 3 distinct points it returns a polygon whose ring is closed (the
\* last position repeats the first) and has no other repeated vertex.
C21_DedupExactAndRingClosed ==
    HullReturned({"buildOutlinePolygon", "scraper_buildOutlinePolygon"})
        => IF Cardinality(DistinctPoints(call.args)) < 3
           THEN call.result.null
           ELSE ~call.result.null /\ ClosedSimpleRing(call.result.ring)

---------------------------------------------------------------------------
(* The sector overlays: frontend/src/map.js:334-364 and 392-444            *)

SectorsReturned == InSectors("returned")

\* The points of a cluster, by their place in the input.
Members(clusterIdxs) == { clusterIdxs[k] : k \in 1..Len(clusterIdxs) }

ClusterSets(st) == { Members(st.clusters[c]) : c \in 1..Len(st.clusters) }

Clustered(st) == UNION ClusterSets(st)

Noise(st) == (1..Len(st.points)) \ Clustered(st)

\* The places of the given points in the list they were permuted from.
Back(S, f) == { f[k] : k \in S }

\* C22: for the same points, eps and minPts, _dbscan on any reordering of the
\* points gives the same points as clustered and as noise, and the same
\* clusters as sets of points.
C22_DbscanOfAnyOrder ==
    SectorsReturned
        => \A f \in Permutations(Len(call.points)) :
            LET other == SectorsOf(Clustering(Permuted(call.points, f),
                                              call.epsMeters, call.minPts))
            IN /\ Back(Clustered(other), f) = Clustered(call)
               /\ Back(Noise(other), f) = Noise(call)
               /\ { Back(S, f) : S \in ClusterSets(other) } = ClusterSets(call)

\* C22 witness: _dbscan returned two clusters that share a point which is
\* within eps of a point of each but has fewer than minPts neighbours itself:
\* the point whose cluster depends on the order in a DBSCAN that assigns a
\* point to one cluster only.
C22_Witness ==
    /\ SectorsReturned
    /\ \E S, T \in ClusterSets(call) :
        /\ S # T
        /\ \E k \in S \cap T :
            Len(regionQuery(call.points, k, call.epsMeters)) < call.minPts

\* The point has at least minPts points within eps, itself counted.
Core(st, k) == Len(regionQuery(st.points, k, st.epsMeters)) >= st.minPts

NearCore(st, k) ==
    \E c \in 1..Len(st.points) :
        Core(st, c) /\ WithinEps(st.points[c], st.points[k], st.epsMeters)

\* Four points within eps of each other and every other point out of eps of
\* the four.
FourCloseRestFar(st, Q) ==
    /\ Cardinality(Q) = 4
    /\ \A a, b \in Q : WithinEps(st.points[a], st.points[b], st.epsMeters)
    /\ \A a \in Q : \A b \in (1..Len(st.points)) \ Q :
        ~WithinEps(st.points[a], st.points[b], st.epsMeters)

\* C23: when _dbscan has returned, a point is in a cluster if and only if it
\* is a core point (at least minPts points within eps, itself counted) or is
\* within eps of a core point; every layer drawn belongs to a cluster, so
\* noise gives no overlay; and four mutually close points with two far
\* points and minPts = 3 give exactly one cluster, of exactly the four.
C23_CoreBorderNoise ==
    SectorsReturned
        => /\ \A k \in 1..Len(call.points) :
                (k \in Clustered(call)) <=> (Core(call, k) \/ NearCore(call, k))
           /\ \A l \in 1..Len(call.layers) :
                call.layers[l].cluster \in 1..Len(call.clusters)
           /\ (Noise(call) = 1..Len(call.points)) => call.layers = <<>>
           /\ \A Q \in SUBSET (1..Len(call.points)) :
                (Len(call.points) = 6 /\ call.minPts = 3 /\ FourCloseRestFar(call, Q))
                    => ClusterSets(call) = {Q}

\* C23 witness: _dbscan returned a cluster, a point that the for loop had
\* visited with fewer than minPts neighbours is a member of it, and another
\* point is noise.
C23_Witness ==
    /\ SectorsReturned
    /\ Noise(call) # {}
    /\ \E q \in 1..Len(call.queries) :
        /\ call.queries[q].at = "loop"
        /\ ~Core(call, call.queries[q].idx)
        /\ call.queries[q].idx \in Clustered(call)

\* The member points of the cluster of the given number, each once, in input
\* order.
MemberPoints(st, c) ==
    LET IsMember(j) == j \in Members(st.clusters[c])
    IN PointsOf(st.points, SelectSeq([j \in 1..Len(st.points) |-> j], IsMember))

\* The layers drawn for the cluster of the given number.
LayersFor(st, c) == { l \in 1..Len(st.layers) : st.layers[l].cluster = c }

\* The centre is the arithmetic mean of the given points.
IsCentroid(center, pts) ==
    /\ center.over > 0
    /\ center.x * Len(pts) = SumOf(pts, 1) * center.over
    /\ center.y * Len(pts) = SumOf(pts, 2) * center.over

\* C24 as claimed: of the clusters _dbscan returned, every cluster with fewer
\* than 3 member points is drawn as exactly one circle centred at the
\* arithmetic centroid of its members with radius max(eps * 0.9, 60), and
\* every cluster with 3 or more member points is drawn as exactly one
\* polygon, the convex hull of its members.
C24_CircleBelowThreeElseHull ==
    SectorsReturned
        => \A c \in 1..Len(call.clusters) :
            /\ Cardinality(LayersFor(call, c)) = 1
            /\ \A l \in LayersFor(call, c) :
                IF Cardinality(Members(call.clusters[c])) < 3
                THEN /\ call.layers[l].kind = "circle"
                     /\ IsCentroid(call.layers[l].center, MemberPoints(call, c))
                     /\ call.layers[l].radius = Radius(call.epsMeters)
                ELSE /\ call.layers[l].kind = "polygon"
                     /\ Len(call.layers[l].ring) >= 3
                     /\ call.layers[l].ring = _convexHull(MemberPoints(call, c)).ring

\* The hull of the members is null or has fewer than 3 vertices.
DegenerateHull(st, c) ==
    LET hull == _convexHull(MemberPoints(st, c))
    IN hull.null \/ Len(hull.ring) < 3

\* C25 as claimed: every cluster _dbscan returned gives exactly one layer,
\* and a cluster whose hull is null or degenerate (fewer than 3 distinct or
\* only collinear member points) gives a circle.
C25_DegenerateHullFallsBackToCircle ==
    SectorsReturned
        => \A c \in 1..Len(call.clusters) :
            /\ Cardinality(LayersFor(call, c)) = 1
            /\ DegenerateHull(call, c)
                => \A l \in LayersFor(call, c) : call.layers[l].kind = "circle"

\* No point's neighbourhood was computed twice in the call.
QueriedOnce(st) ==
    \A p, q \in 1..Len(st.queries) : st.queries[p].idx = st.queries[q].idx => p = q

\* C29: _dbscan terminates for every point list, eps and minPts >= 1 of the
\* model: in every state of the call each point's neighbourhood has been
\* computed at most once, and a call of _dbscan leads to its return.
C29_DbscanTerminates ==
    /\ [](call.fn = "updateSectors" => QueriedOnce(call))
    /\ (call.fn = "updateSectors") ~> (call.pc \in {"clustered", "returned"})

\* C29 witness: the queue holds a point that was already taken from it and
\* pushed onto the cluster.
C29_Witness ==
    /\ InSectors("queue")
    /\ \E k \in 1..Len(call.queue) : call.queue[k] \in Members(call.clusterIdxs)

---------------------------------------------------------------------------
(* The hook again: hooks.jsx:196-245, 287-305, 328-392                     *)

\* The regions an eviction timer is pending for: a timeout that is set, or a
\* handle in regionEvictionTimersRef.
TimerRegions ==
    { t.regionName : t \in timeouts } \cup { r \in RegionNames : regionEvictionTimersRef[r] # 0 }

\* C26: in every reachable state every pending eviction timer (a timeout that
\* is set, or a handle kept in regionEvictionTimersRef) is for a region that
\* is in loadedRegionNames; a region that is not loaded, or is only being
\* loaded, has none.
C26_TimersOnlyForLoaded ==
    \A r \in TimerRegions : r \in loadedRegionNames

\* C26 witness: a region has just left loadedRegionNames by the expiry of its
\* timer, and the timer of the other region, which is loaded, is still
\* pending.
C26_Witness ==
    /\ lastOp.op = "evicted"
    /\ lastOp.region \notin loadedRegionNames
    /\ \E r \in RegionNames \ {lastOp.region} :
        r \in loadedRegionNames /\ r \in TimerRegions

\* C27: in every reachable state every record of tetData carries the name of
\* a region that is in loadedRegionNames (the record ids of the regions being
\* disjoint).
C27_RecordsOnlyOfLoaded ==
    \A i \in 1..Len(tetData) : tetData[i].regionName \in loadedRegionNames

\* C27 witness: a load completed after the low-zoom clear (the latest
\* viewport is below the threshold) and its records are in tetData, while the
\* other region has no record there.
C27_Witness ==
    /\ lastOp.op = "loaded"
    /\ boundsInfo.zoom < LOAD_THRESHOLD_ZOOM
    /\ RecordsOf(tetData, lastOp.region) # {}
    /\ \E r \in RegionNames \ {lastOp.region} :
        r \notin loadedRegionNames /\ RecordsOf(tetData, r) = {}

\* The entry of the region in pointer.json.
Catalogued(r) == CHOOSE p \in { PointerJson[i] : i \in 1..Len(PointerJson) } : p.name = r

\* The viewport is at or above the threshold zoom and intersects the region.
Shows(v, r) == v.zoom >= LOAD_THRESHOLD_ZOOM /\ intersects(Catalogued(r), v)

\* A viewport event that does not show the region.
EventNotShowing(r) == \E v \in Views : ~Shows(v, r) /\ handleViewportChange(v)

\* A viewport event that shows the region.
EventShowing(r) == \E v \in Views : Shows(v, r) /\ handleViewportChange(v)

\* A call of the load of the region returns with a failure.
LoadFails(r) ==
    \E s \in 1..MaxInvocations :
        invocations[s].region = r /\ (CacheRemoveFailed(s) \/ FetchFailed(s))

\* The region is loaded and each of its records is in tetData under its name.
LoadedWithRecords(r) ==
    /\ r \in loadedRegionNames
    /\ \A id \in RegionIds(r) :
        \E i \in 1..Len(tetData) : tetData[i].id = id /\ tetData[i].regionName = r

---------------------------------------------------------------------------
(* The scraper's resume: unnamed/part_011:1243-1300, 1079-1169             *)

\* C30 as claimed: with a batch size above 1, when the main pass of a run
\* that follows a crash is over, every feature that has an export file name
\* and whose id was in neither progress nor errors when the run read the
\* file has been passed to processFeatureInContext by this main pass, and no
\* feature whose id was in progress or errors has.
C30_NoFeatureLostOnResume ==
    (call.fn = "run" /\ call.pc = "mainDone" /\ call.crashes > 0 /\ call.batchSize > 1)
        => \A f \in FeatureIds :
            /\ (call.features[f] # "noCity" /\ f \notin call.doneAtStart) => f \in call.called
            /\ f \in call.doneAtStart => f \notin call.called

====
